---------------------------- MODULE Spec2Model ----------------------------
(* State-machine model of the e-commerce backend (FastAPI + SQLAlchemy):   *)
(* the relational tables of app/db/base.py and the request handlers of     *)
(* app/api/endpoints/{category,product,cart,review,promotion}.py.          *)
(*                                                                         *)
(* A nullable column is a set with at most one element: {} is SQL NULL,    *)
(* {v} is the value v.  Primary keys are uuid4 values in the code; the     *)
(* model draws them as fresh naturals (never reused).                      *)
EXTENDS Integers, Sequences, FiniteSets, TLC

(***************************************************************************)
(* Bounds of the model.                                                    *)
(***************************************************************************)
MaxTime == 1
MaxCategories == 1
MaxProducts == 2
MaxReviews == 2
MaxPromotions == 1
MaxCartIds == 2
MaxQty == 3
MaxIdList == 2
MaxInFlight == 2
MaxTokens == 2
\* backend_dop_task.py: worker processes, candidate strings, and the queue
\* sizes of the producer's backpressure (1000000 and 50000 in the source)
NumWorkers == 2
NumCandidates == 3
max_q == 2
min_q == 1

(***************************************************************************)
(* Program constants.                                                      *)
(***************************************************************************)
HTTP_200_OK == 200
HTTP_201_CREATED == 201
HTTP_204_NO_CONTENT == 204
HTTP_400_BAD_REQUEST == 400
HTTP_401_UNAUTHORIZED == 401
HTTP_403_FORBIDDEN == 403
HTTP_404_NOT_FOUND == 404
HTTP_422_UNPROCESSABLE_ENTITY == 422
HTTP_500_INTERNAL_SERVER_ERROR == 500
\* page_size: int = Query(10, ge=1, le=100)
MaxPageSize == 100
MinRating == 1
MaxRating == 5
DefaultRating == 0

(***************************************************************************)
(* Input domains.                                                          *)
(***************************************************************************)
NULL == {}
Users == {1, 2}
Names == {"a", "ab"}
Prices == {1, 2}
Texts == {"t"}
Times == 0..MaxTime
CategoryIds == 1..MaxCategories
ProductIds == 1..MaxProducts
ReviewIds == 1..MaxReviews
PromotionIds == 1..MaxPromotions
CartItemIds == 1..MaxCartIds
\* a uuid that was never generated for the table: matches no row
UnknownId == 1 - 1
\* backend_dop_task.py: the worker processes (cpu_count() of them), the
\* candidate strings in the order generate_sequence() yields them, the
\* None the host puts at the end, and a `data` not yet assigned
WorkerIds == 1..NumWorkers
Candidates == 1..NumCandidates
None == 1 - 1
NoData == 0 - 1

VARIABLES
    categories,   \* table categories:  category_id  -> row
    products,     \* table products:    product_id   -> row
    reviews,      \* table reviews:     review_id    -> row
    cart_items,   \* table cart_items:  cart_item_id -> row
    cart_seq,     \* number of cart_item_id values generated so far
    promotions,   \* table promotions (+ promotion_products): promotion_id -> row
    now,          \* the clock read by datetime.now() and func.now()
    inflight,     \* requests between two awaits: slot -> request context
    token_table,  \* table user_tokens:  token_id     -> row
    resp,         \* the response the last finished request returned
    hashes,       \* backend_dop_task.py: the hashes brute_force is given
    input_queue,  \* multiprocessing.Queue of candidates, oldest first
    output_queue, \* multiprocessing.Queue of matches, oldest first
    stop_event,   \* multiprocessing.Event: whether it is set
    host,         \* the host process: where brute_force stands, its locals
    workers       \* the worker processes: where each stands, its `data`

\* the state of the script backend_dop_task.py
script == <<hashes, input_queue, output_queue, stop_event, host, workers>>

vars == <<categories, products, reviews, cart_items, cart_seq, promotions,
          now, inflight, token_table, resp, script>>

\* the state that no endpoint of the five routers writes
elsewhere == <<token_table, script>>

(***************************************************************************)
(* Helpers.                                                                *)
(***************************************************************************)
IsNull(x) == x = NULL
Live(table) == {i \in DOMAIN table : IsNull(table[i].deleted_at)}
Insert(table, id, row) == [i \in DOMAIN table \cup {id} |->
                              IF i = id THEN row ELSE table[i]]
Remove(table, ids) == [i \in DOMAIN table \ ids |-> table[i]]
NextId(table) == Cardinality(DOMAIN table) + 1
NoItems == <<>>

\* the handler's response: operation, status code, the id addressed or
\* created, the authenticated user, the request arguments, and a listing
\* (items, total, pages).
Response(op, status, id, user, arg, items, total, pages) ==
    [op |-> op, status |-> status, id |-> id, user |-> user, arg |-> arg,
     items |-> items, total |-> total, pages |-> pages]

\* pages = (total + page_size - 1) // page_size
Pages(total, page_size) == (total + page_size - 1) \div page_size

\* a request body field under model_dump(exclude_unset=True): either not
\* sent, or sent with a (nullable) value
Unset == [sent |-> FALSE, val |-> NULL]
Sent(v) == [sent |-> TRUE, val |-> v]

\* the orders in which a SELECT may return the rows `ids`: any order that
\* is ascending in the ORDER BY key `key[i]` (ties, or a constant key when
\* there is no ORDER BY at all, leave the order to the database)
RECURSIVE Orders(_, _)
Orders(ids, key) ==
    IF ids = {} THEN {<<>>}
    ELSE UNION {{<<f>> \o s : s \in Orders(ids \ {f}, key)} :
                f \in {i \in ids : \A j \in ids : key[j] >= key[i]}}

\* .offset(offset).limit(limit) applied to an ordered result
RECURSIVE Slice(_, _, _)
Slice(s, offset, limit) ==
    IF offset > 0 /\ s # <<>> THEN Slice(Tail(s), offset - 1, limit)
    ELSE IF limit > 0 /\ s # <<>> THEN <<Head(s)>> \o Slice(Tail(s), 0, limit - 1)
    ELSE <<>>

Range(s) == {s[i] : i \in DOMAIN s}

\* the token table: one token, of user 1, that does not expire within the
\* time modelled (tokens are created at login, outside these endpoints,
\* and never changed)
user_tokens == <<[user_id |-> 1, expired_at |-> MaxTime]>>

\* the script before brute_force is called: lines 36-39 have made the two
\* queues and the event, and no worker process exists yet
ScriptNotRun ==
    /\ input_queue = <<>>
    /\ output_queue = <<>>
    /\ stop_event = FALSE
    /\ host = [pc |-> "start", i |-> 1, joined |-> 0, sent |-> 0,
               data |-> NoData]
    /\ workers = [w \in WorkerIds |-> [pc |-> "not_started", data |-> NoData]]

(***************************************************************************)
(* Initial state: empty tables (Base.metadata.create_all).                 *)
(***************************************************************************)
Init ==
    /\ categories = <<>>
    /\ products = <<>>
    /\ reviews = <<>>
    /\ cart_items = <<>>
    /\ cart_seq = 0
    /\ promotions = <<>>
    /\ now = 0
    /\ inflight = <<>>
    /\ token_table = user_tokens
    /\ resp = Response("none", 0, UnknownId, 0, 0, NoItems, 0, 0)
    /\ hashes = {}
    /\ ScriptNotRun

\* time passes between two requests
Tick ==
    /\ now < MaxTime
    /\ now' = now + 1
    /\ UNCHANGED <<categories, products, reviews, cart_items, cart_seq,
                   promotions, inflight, elsewhere, resp>>

(***************************************************************************)
(* String helpers: ORDER BY name and ILIKE '%pattern%'.                    *)
(***************************************************************************)
Patterns == {"a", "b", "A"}
\* collation rank of a name; NULL sorts last (PostgreSQL, ascending)
NameRank(name) ==
    IF IsNull(name) THEN 3 ELSE IF name = {"a"} THEN 1 ELSE 2
Lower(pattern) == IF pattern = "A" THEN "a" ELSE pattern
\* name ILIKE '%pattern%'; NULL ILIKE ... is NULL, which WHERE rejects
ILike(name, pattern) ==
    /\ ~IsNull(name)
    /\ \/ name = {Lower(pattern)}
       \/ name = {"ab"} /\ Lower(pattern) \in {"a", "b"}

\* Query(1, ge=1) and Query(10, ge=1, le=100): the review listings
page_query_valid(page, page_size) ==
    page >= 1 /\ page_size >= 1 /\ page_size <= MaxPageSize

\* what the statements of a listing do with page and page_size once they
\* are past validation: PostgreSQL refuses a negative OFFSET or LIMIT, and
\* (total + page_size - 1) // page_size raises ZeroDivisionError at 0
page_computable(page, page_size) ==
    (page - 1) * page_size >= 0 /\ page_size > 0

\* a paginated listing: the rows `matching` in an order the ORDER BY key
\* allows, sliced by offset and limit.  A row of `bad` (one the response
\* model cannot serialise) among the items fails the response validation.
paginated(op, bad, matching, total, key, flt, page, page_size) ==
    \E order \in Orders(matching, key) :
        LET items == Slice(order, (page - 1) * page_size, page_size)
            arg == [flt |-> flt, page |-> page, page_size |-> page_size]
        IN  resp' = IF \/ ~page_computable(page, page_size)
                       \/ Range(items) \cap bad # {}
                    THEN Response(op, HTTP_500_INTERNAL_SERVER_ERROR,
                                  UnknownId, 0, arg, NoItems, 0, 0)
                    ELSE Response(op, HTTP_200_OK, UnknownId, 0, arg, items,
                                  total, Pages(total, page_size))

\* no ORDER BY
NoOrder(ids) == [i \in ids |-> 0]

(***************************************************************************)
(* Category endpoints (app/api/endpoints/category.py).                     *)
(***************************************************************************)
\* select(Category).where(category_id == id, deleted_at.is_(None))
select_live_category(cats, id) ==
    {i \in DOMAIN cats : i = id /\ IsNull(cats[i].deleted_at)}

\* fault variant: a unique index over the live rows only
name_unique_among_live(cats, id, name) ==
    /\ ~IsNull(name)
    /\ \E j \in DOMAIN cats :
           j # id /\ cats[j].name = name /\ IsNull(cats[j].deleted_at)

\* the unique index on categories.name: would row `id` holding `name`
\* collide with another row (NULLs never collide)
name_unique_violation(cats, id, name) ==
    /\ ~IsNull(name)
    /\ \E j \in DOMAIN cats : j # id /\ cats[j].name = name

\* db.add(category); commit: the INSERT either violates the unique index
\* (IntegrityError, rollback, 400) or stores the row.  `max` bounds the
\* number of rows modelled.
create_category_within(u, name, max) ==
    LET id == NextId(categories) IN
    IF name_unique_violation(categories, id, {name})
    THEN /\ resp' = Response("create_category", HTTP_400_BAD_REQUEST,
                             UnknownId, u, name, NoItems, 0, 0)
         /\ UNCHANGED categories
    ELSE /\ id <= max
         /\ categories' = Insert(categories, id,
                [name |-> {name}, created_at |-> now, updated_at |-> now,
                 deleted_at |-> NULL])
         /\ resp' = Response("create_category", HTTP_201_CREATED, id, u,
                             name, NoItems, 0, 0)

create_category(u, name) == create_category_within(u, name, MaxCategories)

\* body.name: Unset, Sent(NULL) or Sent({name})
update_category(u, id, body) ==
    LET found == select_live_category(categories, id) IN
    IF found = {}
    THEN /\ resp' = Response("update_category", HTTP_404_NOT_FOUND, id, u,
                             body, NoItems, 0, 0)
         /\ UNCHANGED categories
    ELSE IF ~body.name.sent
    THEN /\ resp' = Response("update_category", HTTP_200_OK, id, u, body,
                             NoItems, 0, 0)
         /\ UNCHANGED categories
    ELSE IF name_unique_violation(categories, id, body.name.val)
    THEN /\ resp' = Response("update_category", HTTP_400_BAD_REQUEST, id, u,
                             body, NoItems, 0, 0)
         /\ UNCHANGED categories
    ELSE /\ categories' = [categories EXCEPT ![id].name = body.name.val,
                                             ![id].updated_at = now]
         \* CategoryRead.name is a required str: a NULL name is committed
         \* and then fails the response validation
         /\ resp' = Response("update_category",
                             IF IsNull(body.name.val)
                             THEN HTTP_500_INTERNAL_SERVER_ERROR
                             ELSE HTTP_200_OK,
                             id, u, body, NoItems, 0, 0)

get_category(id) ==
    LET found == select_live_category(categories, id) IN
    /\ resp' = Response("get_category",
                        IF found = {} THEN HTTP_404_NOT_FOUND
                        ELSE IF IsNull(categories[id].name)
                        THEN HTTP_500_INTERNAL_SERVER_ERROR
                        ELSE HTTP_200_OK,
                        id, 0, 0, NoItems, 0, 0)
    /\ UNCHANGED categories

delete_category(u, id) ==
    LET found == select_live_category(categories, id) IN
    IF found = {}
    THEN /\ resp' = Response("delete_category", HTTP_404_NOT_FOUND, id, u, 0,
                             NoItems, 0, 0)
         /\ UNCHANGED categories
    ELSE \* deleted_at = datetime.now(); the UPDATE fires onupdate=func.now()
         /\ categories' = [categories EXCEPT ![id].deleted_at = {now},
                                             ![id].updated_at = now]
         /\ resp' = Response("delete_category", HTTP_204_NO_CONTENT, id, u, 0,
                             NoItems, 0, 0)

\* the WHERE clause of the listing and of its count query
get_categories_where(cats) ==
    {i \in DOMAIN cats : IsNull(cats[i].deleted_at)}

get_categories(page, page_size) ==
    LET matching == get_categories_where(categories)
        total == Cardinality(get_categories_where(categories))
        key == [i \in matching |-> NameRank(categories[i].name)]
        bad == {i \in DOMAIN categories : IsNull(categories[i].name)}
    IN  /\ paginated("get_categories", bad, matching, total, key, NULL,
                     page, page_size)
        /\ UNCHANGED categories

(***************************************************************************)
(* Product endpoints (app/api/endpoints/product.py).                       *)
(***************************************************************************)
\* fault variant: the product lookup without its product_id condition
select_product_any_id(ps, id) == {i \in DOMAIN ps : IsNull(ps[i].deleted_at)}

\* fault variant: the product lookup without its deleted_at condition
select_product_unfiltered(ps, id) == {i \in DOMAIN ps : i = id}

\* select(Product).where(product_id == id, deleted_at.is_(None))
select_live_product(ps, id) ==
    {i \in DOMAIN ps : i = id /\ IsNull(ps[i].deleted_at)}

\* select(Category).where(category_id == id): no deleted_at filter
select_category(cats, id) == {i \in DOMAIN cats : i = id}

\* ProductRead / ProductDetailRead need name, price, category_id (and the
\* category's name) to be present
product_serializable(row) ==
    ~IsNull(row.name) /\ ~IsNull(row.price) /\ ~IsNull(row.category_id)

unserializable_products ==
    {i \in DOMAIN products : ~product_serializable(products[i])}

create_product(u, name, price, category_id) ==
    LET id == NextId(products) IN
    IF select_category(categories, category_id) = {}
    THEN /\ resp' = Response("create_product", HTTP_404_NOT_FOUND, UnknownId,
                             u, category_id, NoItems, 0, 0)
         /\ UNCHANGED products
    ELSE /\ id <= MaxProducts
         /\ products' = Insert(products, id,
                [name |-> {name}, price |-> {price}, rating |-> DefaultRating,
                 category_id |-> {category_id}, created_at |-> now,
                 updated_at |-> now, deleted_at |-> NULL])
         /\ resp' = Response("create_product", HTTP_201_CREATED, id, u,
                             category_id, NoItems, 0, 0)

\* fault variant: the setattr loop without `product.updated_at = ...`
apply_product_update_unstamped(row, body, t) ==
    [row EXCEPT !.name = IF body.name.sent THEN body.name.val ELSE @,
                !.price = IF body.price.sent THEN body.price.val ELSE @,
                !.category_id = IF body.category_id.sent
                                THEN body.category_id.val ELSE @]

\* setattr for every field the body sent (model_dump(exclude_unset=True))
apply_product_update(row, body, t) ==
    [row EXCEPT !.name = IF body.name.sent THEN body.name.val ELSE @,
                !.price = IF body.price.sent THEN body.price.val ELSE @,
                !.category_id = IF body.category_id.sent
                                THEN body.category_id.val ELSE @,
                !.updated_at = t]

\* body.name, body.price, body.category_id: Unset, Sent(NULL) or Sent({v})
update_product(u, id, body) ==
    LET found == select_live_product(products, id) IN
    IF found = {}
    THEN /\ resp' = Response("update_product", HTTP_404_NOT_FOUND, id, u,
                             body, NoItems, 0, 0)
         /\ UNCHANGED products
    ELSE IF /\ ~IsNull(body.category_id.val)
            /\ body.category_id.val # products[id].category_id
            /\ \A c \in body.category_id.val :
                   select_category(categories, c) = {}
    THEN /\ resp' = Response("update_product", HTTP_404_NOT_FOUND, id, u,
                             body, NoItems, 0, 0)
         /\ UNCHANGED products
    ELSE /\ products' = [products EXCEPT
                            ![id] = apply_product_update(@, body, now)]
         /\ resp' = Response("update_product",
                             IF product_serializable(products'[id])
                             THEN HTTP_200_OK
                             ELSE HTTP_500_INTERNAL_SERVER_ERROR,
                             id, u, body, NoItems, 0, 0)

get_product(id) ==
    LET found == select_live_product(products, id) IN
    /\ resp' = Response("get_product",
                        IF found = {} THEN HTTP_404_NOT_FOUND
                        ELSE IF /\ product_serializable(products[id])
                                /\ \A c \in products[id].category_id :
                                       ~IsNull(categories[c].name)
                        THEN HTTP_200_OK
                        ELSE HTTP_500_INTERNAL_SERVER_ERROR,
                        id, 0, 0, NoItems, 0, 0)
    /\ UNCHANGED products

delete_product(u, id) ==
    LET found == select_live_product(products, id) IN
    IF found = {}
    THEN /\ resp' = Response("delete_product", HTTP_404_NOT_FOUND, id, u, 0,
                             NoItems, 0, 0)
         /\ UNCHANGED products
    ELSE /\ products' = [products EXCEPT ![id].deleted_at = {now},
                                         ![id].updated_at = now]
         /\ resp' = Response("delete_product", HTTP_204_NO_CONTENT, id, u, 0,
                             NoItems, 0, 0)

\* an optional numeric filter f (NULL when the parameter is absent) against
\* a nullable column: column >= f, column <= f
AtLeast(col, f) == \A v \in f : \E c \in col : c >= v
AtMost(col, f) == \A v \in f : \E c \in col : c <= v
\* an optional equality filter
Equals(col, f) == \A v \in f : col = {v}

\* the filters list_products applies to query and to count_query;
\* flt = [name, min_price, max_price, min_rating, category_id], each NULL
\* or {v}.  `if name:` applies the name filter to non-empty strings.
list_products_where(ps, flt) ==
    {i \in DOMAIN ps :
        /\ IsNull(ps[i].deleted_at)
        /\ \A n \in flt.name : ILike(ps[i].name, n)
        /\ AtLeast(ps[i].price, flt.min_price)
        /\ AtMost(ps[i].price, flt.max_price)
        /\ AtLeast({ps[i].rating}, flt.min_rating)
        /\ Equals(ps[i].category_id, flt.category_id)}

\* the same filters as written a second time for count_query
list_products_count_where(ps, flt) ==
    {i \in DOMAIN ps :
        /\ IsNull(ps[i].deleted_at)
        /\ \A n \in flt.name : ILike(ps[i].name, n)
        /\ AtLeast(ps[i].price, flt.min_price)
        /\ AtMost(ps[i].price, flt.max_price)
        /\ AtLeast({ps[i].rating}, flt.min_rating)
        /\ Equals(ps[i].category_id, flt.category_id)}

list_products(flt, page, page_size) ==
    LET matching == list_products_where(products, flt)
        total == Cardinality(list_products_count_where(products, flt))
    IN  /\ paginated("list_products", unserializable_products, matching, total,
                     NoOrder(matching), flt, page, page_size)
        /\ UNCHANGED products

\* search_products: query is required (min_length=1); flt.name holds it
search_products_where(ps, flt) ==
    {i \in DOMAIN ps :
        /\ \E q \in flt.name : ILike(ps[i].name, q)
        /\ IsNull(ps[i].deleted_at)
        /\ Equals(ps[i].category_id, flt.category_id)
        /\ AtLeast(ps[i].price, flt.min_price)
        /\ AtMost(ps[i].price, flt.max_price)
        /\ AtLeast({ps[i].rating}, flt.min_rating)}

search_products(flt, page, page_size) ==
    LET matching == search_products_where(products, flt)
        total == Cardinality(search_products_where(products, flt))
    IN  /\ paginated("search_products", unserializable_products, matching, total,
                     NoOrder(matching), flt, page, page_size)
        /\ UNCHANGED products

\* list_products_by_category: flt.category_id is the path parameter
list_products_by_category_where(ps, flt) ==
    {i \in DOMAIN ps :
        /\ Equals(ps[i].category_id, flt.category_id)
        /\ IsNull(ps[i].deleted_at)
        /\ AtLeast(ps[i].price, flt.min_price)
        /\ AtMost(ps[i].price, flt.max_price)
        /\ AtLeast({ps[i].rating}, flt.min_rating)}

list_products_by_category(flt, page, page_size) ==
    LET matching == list_products_by_category_where(products, flt)
        total == Cardinality(list_products_by_category_where(products, flt))
    IN  /\ IF \A c \in flt.category_id :
                 select_live_category(categories, c) = {}
           THEN resp' = Response("list_products_by_category",
                                 HTTP_404_NOT_FOUND, UnknownId, 0,
                                 [flt |-> flt, page |-> page,
                                  page_size |-> page_size], NoItems, 0, 0)
           ELSE paginated("list_products_by_category",
                          unserializable_products, matching,
                          total, NoOrder(matching), flt, page, page_size)
        /\ UNCHANGED products

(***************************************************************************)
(* Cart endpoints (app/api/endpoints/cart.py).  cart_items has no          *)
(* deleted_at and no unique constraint on (user_id, product_id); rows are  *)
(* removed physically.                                                     *)
(***************************************************************************)
\* fault variant: the query without its user_id condition
existing_item_any_user(cart, u, pid) ==
    {i \in DOMAIN cart : cart[i].product_id = pid}

\* select(CartItem).where(user_id == u, product_id == pid)
existing_item(cart, u, pid) ==
    {i \in DOMAIN cart : cart[i].user_id = u /\ cart[i].product_id = pid}

\* what the handler holds after the read: the rows found, with the
\* quantity each had when it was read
snapshot(cart, ids) == {[id |-> i, quantity |-> cart[i].quantity] : i \in ids}

\* lines 55-72: the write that follows the read.  `seen` is the snapshot of
\* the rows the read returned.  Result: the table, the id counter, the
\* status and the id of the row returned.
add_to_cart_write(cart, seq, u, pid, q, seen) ==
    IF Cardinality(seen) > 1
    THEN \* scalar_one_or_none(): MultipleResultsFound
         [cart |-> cart, seq |-> seq, id |-> UnknownId,
          status |-> HTTP_500_INTERNAL_SERVER_ERROR]
    ELSE IF seen # {}
    THEN LET e == CHOOSE x \in seen : TRUE IN
         IF e.id \notin DOMAIN cart \/ IsNull(e.quantity)
         THEN \* the row is gone (StaleDataError), or None += int (TypeError)
              [cart |-> cart, seq |-> seq, id |-> e.id,
               status |-> HTTP_500_INTERNAL_SERVER_ERROR]
         ELSE \* existing_item.quantity += item.quantity, from the value read
              [cart |-> [cart EXCEPT ![e.id].quantity =
                            {v + q : v \in e.quantity}],
               seq |-> seq, id |-> e.id, status |-> HTTP_201_CREATED]
    ELSE [cart |-> Insert(cart, seq + 1,
                     [user_id |-> u, product_id |-> pid, quantity |-> {q}]),
          seq |-> seq + 1, id |-> seq + 1, status |-> HTTP_201_CREATED]

\* the model's bounds on a write: generated ids and stored quantities
within_cart_bounds(w) ==
    /\ w.seq <= MaxCartIds
    /\ \A i \in DOMAIN w.cart : \A v \in w.cart[i].quantity : v <= MaxQty

\* add_to_cart handled without another request in between
add_to_cart(u, pid, q) ==
    IF select_live_product(products, pid) = {}
    THEN /\ resp' = Response("add_to_cart", HTTP_404_NOT_FOUND, UnknownId, u,
                             [product_id |-> pid, quantity |-> q],
                             NoItems, 0, 0)
         /\ UNCHANGED <<cart_items, cart_seq>>
    ELSE LET seen == snapshot(cart_items, existing_item(cart_items, u, pid))
             w == add_to_cart_write(cart_items, cart_seq, u, pid, q, seen)
         IN  /\ within_cart_bounds(w)
             /\ cart_items' = w.cart
             /\ cart_seq' = w.seq
             /\ resp' = Response("add_to_cart", w.status, w.id, u,
                                 [product_id |-> pid, quantity |-> q],
                                 NoItems, 0, 0)

\* fault variant: the row addressed by its id alone
select_cart_item_any_user(cart, id, u) ==
    {i \in DOMAIN cart : i = id}

\* select(CartItem).where(cart_item_id == id, user_id == u)
select_cart_item(cart, id, u) ==
    {i \in DOMAIN cart : i = id /\ cart[i].user_id = u}

\* CartItemRead needs an integer quantity; CartItemDetailRead also needs a
\* serialisable product
cart_item_serializable(row) == ~IsNull(row.quantity)

get_cart_item(u, id) ==
    LET found == select_cart_item(cart_items, id, u) IN
    /\ resp' = Response("get_cart_item",
                        IF found = {} THEN HTTP_404_NOT_FOUND
                        ELSE IF /\ cart_item_serializable(cart_items[id])
                                /\ product_serializable(
                                       products[cart_items[id].product_id])
                        THEN HTTP_200_OK
                        ELSE HTTP_500_INTERNAL_SERVER_ERROR,
                        id, u, 0, NoItems, 0, 0)
    /\ UNCHANGED <<cart_items, cart_seq>>

\* body.quantity: Unset, Sent(NULL) or Sent({q})
update_cart_item(u, id, body) ==
    LET found == select_cart_item(cart_items, id, u) IN
    IF found = {}
    THEN /\ resp' = Response("update_cart_item", HTTP_404_NOT_FOUND, id, u,
                             body, NoItems, 0, 0)
         /\ UNCHANGED <<cart_items, cart_seq>>
    ELSE /\ cart_items' = [cart_items EXCEPT ![id].quantity =
                              IF body.quantity.sent THEN body.quantity.val
                              ELSE @]
         /\ resp' = Response("update_cart_item",
                             IF cart_item_serializable(cart_items'[id])
                             THEN HTTP_200_OK
                             ELSE HTTP_500_INTERNAL_SERVER_ERROR,
                             id, u, body, NoItems, 0, 0)
         /\ UNCHANGED cart_seq

remove_from_cart(u, id) ==
    LET found == select_cart_item(cart_items, id, u) IN
    IF found = {}
    THEN /\ resp' = Response("remove_from_cart", HTTP_404_NOT_FOUND, id, u, 0,
                             NoItems, 0, 0)
         /\ UNCHANGED <<cart_items, cart_seq>>
    ELSE /\ cart_items' = Remove(cart_items, found)
         /\ resp' = Response("remove_from_cart", HTTP_204_NO_CONTENT, id, u,
                             0, NoItems, 0, 0)
         /\ UNCHANGED cart_seq

\* select(CartItem).where(user_id == u)
user_cart(cart, u) == {i \in DOMAIN cart : cart[i].user_id = u}

clear_cart(u) ==
    /\ cart_items' = Remove(cart_items, user_cart(cart_items, u))
    /\ resp' = Response("clear_cart", HTTP_204_NO_CONTENT, UnknownId, u, 0,
                        NoItems, 0, 0)
    /\ UNCHANGED cart_seq

\* the sum of quantity over a set of rows (SUM ignores NULL)
RECURSIVE SumQuantity(_, _)
SumQuantity(cart, ids) ==
    IF ids = {} THEN 0
    ELSE LET i == CHOOSE x \in ids : TRUE IN
         (IF IsNull(cart[i].quantity) THEN 0
          ELSE CHOOSE v \in cart[i].quantity : TRUE)
         + SumQuantity(cart, ids \ {i})

\* select(func.sum(quantity)).where(user_id == u); `or 0` for no rows
get_cart_item_count(u) ==
    /\ resp' = Response("get_cart_item_count", HTTP_200_OK, UnknownId, u, 0,
                        NoItems,
                        SumQuantity(cart_items, user_cart(cart_items, u)), 0)
    /\ UNCHANGED <<cart_items, cart_seq>>

\* flt = [product_id, min_quantity, max_quantity], each NULL or {v}
get_cart_items_where(cart, u, flt) ==
    {i \in DOMAIN cart :
        /\ cart[i].user_id = u
        /\ Equals({cart[i].product_id}, flt.product_id)
        /\ AtLeast(cart[i].quantity, flt.min_quantity)
        /\ AtMost(cart[i].quantity, flt.max_quantity)}

get_cart_items(u, flt, page, page_size) ==
    LET matching == get_cart_items_where(cart_items, u, flt)
        total == Cardinality(get_cart_items_where(cart_items, u, flt))
        bad == {i \in DOMAIN cart_items :
                   \/ ~cart_item_serializable(cart_items[i])
                   \/ ~product_serializable(
                          products[cart_items[i].product_id])}
    IN  /\ \E order \in Orders(matching, NoOrder(matching)) :
             LET items == Slice(order, (page - 1) * page_size, page_size)
                 arg == [flt |-> flt, page |-> page, page_size |-> page_size]
             IN  resp' = IF \/ ~page_computable(page, page_size)
                            \/ Range(items) \cap bad # {}
                         THEN Response("get_cart_items",
                                       HTTP_500_INTERNAL_SERVER_ERROR,
                                       UnknownId, u, arg, NoItems, 0, 0)
                         ELSE Response("get_cart_items", HTTP_200_OK,
                                       UnknownId, u, arg, items, total,
                                       Pages(total, page_size))
        /\ UNCHANGED <<cart_items, cart_seq>>

(***************************************************************************)
(* add_to_cart as it runs between awaits: the product query, the query for *)
(* the existing row, and the commit are three statements, and statements   *)
(* of other requests may run between them.                                 *)
(***************************************************************************)
Slots == 1..MaxInFlight
Begin(slot, ctx) == Insert(inflight, slot, ctx)
Finish(slot) == Remove(inflight, {slot})
At(slot, op, pc) ==
    /\ slot \in DOMAIN inflight
    /\ inflight[slot].op = op
    /\ inflight[slot].pc = pc

\* lines 33-45: the product query
add_to_cart_begin(slot, u, pid, q) ==
    /\ slot \notin DOMAIN inflight
    /\ IF select_live_product(products, pid) = {}
       THEN /\ resp' = Response("add_to_cart", HTTP_404_NOT_FOUND, UnknownId,
                                u, [product_id |-> pid, quantity |-> q],
                                NoItems, 0, 0)
            /\ UNCHANGED inflight
       ELSE /\ inflight' = Begin(slot, [op |-> "add_to_cart",
                                        pc |-> "product_checked", user |-> u,
                                        product_id |-> pid, quantity |-> q,
                                        seen |-> {}])
            /\ UNCHANGED resp
    /\ UNCHANGED <<cart_items, cart_seq>>

\* lines 47-53: the query for the existing row
add_to_cart_read(slot) ==
    /\ At(slot, "add_to_cart", "product_checked")
    /\ inflight' = [inflight EXCEPT
            ![slot].pc = "item_read",
            ![slot].seen = snapshot(cart_items,
                              existing_item(cart_items, inflight[slot].user,
                                            inflight[slot].product_id))]
    /\ UNCHANGED <<cart_items, cart_seq, resp>>

\* lines 55-72: the update or the insert, and the commit
add_to_cart_commit(slot) ==
    /\ At(slot, "add_to_cart", "item_read")
    /\ LET c == inflight[slot]
           w == add_to_cart_write(cart_items, cart_seq, c.user, c.product_id,
                                  c.quantity, c.seen)
       IN  /\ within_cart_bounds(w)
           /\ cart_items' = w.cart
           /\ cart_seq' = w.seq
           /\ resp' = Response("add_to_cart", w.status, w.id, c.user,
                               [product_id |-> c.product_id,
                                quantity |-> c.quantity], NoItems, 0, 0)
    /\ inflight' = Finish(slot)

(***************************************************************************)
(* Review endpoints (app/api/endpoints/review.py).                         *)
(***************************************************************************)
\* ReviewBase.rating: Field(..., ge=1, le=5)
rating_valid(rating) == MinRating <= rating /\ rating <= MaxRating

\* fault variant: the query without its deleted_at condition
existing_review_any_state(rs, u, pid) ==
    {i \in DOMAIN rs : rs[i].product_id = pid /\ rs[i].user_id = u}

\* fault variant: the query with its deleted_at condition inverted
existing_review_deleted_only(rs, u, pid) ==
    {i \in DOMAIN rs : /\ rs[i].product_id = pid
                       /\ rs[i].user_id = u
                       /\ ~IsNull(rs[i].deleted_at)}

\* select(Review).where(product_id == pid, user_id == u, deleted_at.is_(None))
existing_review(rs, u, pid) ==
    {i \in DOMAIN rs : /\ rs[i].product_id = pid
                       /\ rs[i].user_id = u
                       /\ IsNull(rs[i].deleted_at)}

\* lines 56-68: the insert that follows the two checks
create_review_insert(rs, u, pid, text, rating, t) ==
    Insert(rs, NextId(rs),
           [user_id |-> u, product_id |-> pid, text |-> {text},
            rating |-> {rating}, created_at |-> t, updated_at |-> t,
            deleted_at |-> NULL])

\* lines 41-54: the outcome of the existing-review query with `found` rows
existing_review_status(found) ==
    IF Cardinality(found) > 1 THEN HTTP_500_INTERNAL_SERVER_ERROR
    ELSE IF found # {} THEN HTTP_400_BAD_REQUEST
    ELSE HTTP_200_OK

\* create_review handled without another request in between
create_review(u, pid, text, rating) ==
    LET arg == [product_id |-> pid, text |-> text, rating |-> rating]
        found == existing_review(reviews, u, pid)
    IN
    IF ~rating_valid(rating)
    THEN /\ resp' = Response("create_review", HTTP_422_UNPROCESSABLE_ENTITY,
                             UnknownId, u, arg, NoItems, 0, 0)
         /\ UNCHANGED reviews
    ELSE IF select_live_product(products, pid) = {}
    THEN /\ resp' = Response("create_review", HTTP_404_NOT_FOUND, UnknownId,
                             u, arg, NoItems, 0, 0)
         /\ UNCHANGED reviews
    ELSE IF existing_review_status(found) # HTTP_200_OK
    THEN /\ resp' = Response("create_review", existing_review_status(found),
                             UnknownId, u, arg, NoItems, 0, 0)
         /\ UNCHANGED reviews
    ELSE /\ NextId(reviews) <= MaxReviews
         /\ reviews' = create_review_insert(reviews, u, pid, text, rating, now)
         /\ resp' = Response("create_review", HTTP_200_OK, NextId(reviews), u,
                             arg, NoItems, 0, 0)

\* select(Review).where(review_id == id, deleted_at.is_(None))
select_live_review(rs, id) ==
    {i \in DOMAIN rs : i = id /\ IsNull(rs[i].deleted_at)}

\* ReviewRead needs text and an integer rating
review_serializable(row) == ~IsNull(row.text) /\ ~IsNull(row.rating)

get_review(id) ==
    LET found == select_live_review(reviews, id) IN
    /\ resp' = Response("get_review",
                        IF found = {} THEN HTTP_404_NOT_FOUND
                        ELSE IF review_serializable(reviews[id])
                        THEN HTTP_200_OK
                        ELSE HTTP_500_INTERNAL_SERVER_ERROR,
                        id, 0, 0, NoItems, 0, 0)
    /\ UNCHANGED reviews

\* ReviewUpdate.rating: Optional[int] = Field(None, ge=1, le=5)
review_update_valid(body) == \A r \in body.rating.val : rating_valid(r)

\* body.text, body.rating: Unset, Sent(NULL) or Sent({v})
\* fault variant: the author check left out
is_author_unchecked(row, u) == TRUE

\* lines 334-339 and 377-382: review.user_id != current_user.user_id
is_author(row, u) == row.user_id = u

update_review(u, id, body) ==
    LET found == select_live_review(reviews, id) IN
    IF ~review_update_valid(body)
    THEN /\ resp' = Response("update_review", HTTP_422_UNPROCESSABLE_ENTITY,
                             id, u, body, NoItems, 0, 0)
         /\ UNCHANGED reviews
    ELSE IF found = {}
    THEN /\ resp' = Response("update_review", HTTP_404_NOT_FOUND, id, u, body,
                             NoItems, 0, 0)
         /\ UNCHANGED reviews
    ELSE IF ~is_author(reviews[id], u)
    THEN /\ resp' = Response("update_review", HTTP_403_FORBIDDEN, id, u, body,
                             NoItems, 0, 0)
         /\ UNCHANGED reviews
    ELSE /\ reviews' = [reviews EXCEPT
              ![id].text = IF body.text.sent THEN body.text.val ELSE @,
              ![id].rating = IF body.rating.sent THEN body.rating.val ELSE @,
              ![id].updated_at = now]
         /\ resp' = Response("update_review",
                             IF review_serializable(reviews'[id])
                             THEN HTTP_200_OK
                             ELSE HTTP_500_INTERNAL_SERVER_ERROR,
                             id, u, body, NoItems, 0, 0)

delete_review(u, id) ==
    LET found == select_live_review(reviews, id) IN
    IF found = {}
    THEN /\ resp' = Response("delete_review", HTTP_404_NOT_FOUND, id, u, 0,
                             NoItems, 0, 0)
         /\ UNCHANGED reviews
    ELSE IF ~is_author(reviews[id], u)
    THEN /\ resp' = Response("delete_review", HTTP_403_FORBIDDEN, id, u, 0,
                             NoItems, 0, 0)
         /\ UNCHANGED reviews
    ELSE /\ reviews' = [reviews EXCEPT ![id].deleted_at = {now},
                                       ![id].updated_at = now]
         /\ resp' = Response("delete_review", HTTP_204_NO_CONTENT, id, u, 0,
                             NoItems, 0, 0)

\* flt = [product_id, user_id, min_rating, max_rating], each NULL or {v}
list_reviews_where(rs, flt) ==
    {i \in DOMAIN rs :
        /\ IsNull(rs[i].deleted_at)
        /\ Equals({rs[i].product_id}, flt.product_id)
        /\ Equals({rs[i].user_id}, flt.user_id)
        /\ AtLeast(rs[i].rating, flt.min_rating)
        /\ AtMost(rs[i].rating, flt.max_rating)}

\* order_by(Review.created_at.desc())
created_at_desc(rs, ids) == [i \in ids |-> 0 - rs[i].created_at]

unserializable_reviews ==
    {i \in DOMAIN reviews : ~review_serializable(reviews[i])}

list_reviews(u, flt, page, page_size) ==
    LET matching == list_reviews_where(reviews, flt)
        total == Cardinality(list_reviews_where(reviews, flt))
    IN  /\ IF ~page_query_valid(page, page_size)
           THEN resp' = Response("list_reviews",
                                 HTTP_422_UNPROCESSABLE_ENTITY, UnknownId, 0,
                                 [flt |-> flt, page |-> page,
                                  page_size |-> page_size], NoItems, 0, 0)
           ELSE paginated("list_reviews", unserializable_reviews, matching,
                          total, created_at_desc(reviews, matching), flt,
                          page, page_size)
        /\ UNCHANGED reviews

\* get_product_reviews: flt.product_id is the path parameter
get_product_reviews_where(rs, flt) ==
    {i \in DOMAIN rs :
        /\ Equals({rs[i].product_id}, flt.product_id)
        /\ IsNull(rs[i].deleted_at)
        /\ AtLeast(rs[i].rating, flt.min_rating)
        /\ AtMost(rs[i].rating, flt.max_rating)}

get_product_reviews(flt, page, page_size) ==
    LET matching == get_product_reviews_where(reviews, flt)
        total == Cardinality(get_product_reviews_where(reviews, flt))
    IN  /\ IF ~page_query_valid(page, page_size)
           THEN resp' = Response("get_product_reviews",
                                 HTTP_422_UNPROCESSABLE_ENTITY, UnknownId, 0,
                                 [flt |-> flt, page |-> page,
                                  page_size |-> page_size], NoItems, 0, 0)
           ELSE IF \A p \in flt.product_id :
                       select_live_product(products, p) = {}
           THEN resp' = Response("get_product_reviews", HTTP_404_NOT_FOUND,
                                 UnknownId, 0,
                                 [flt |-> flt, page |-> page,
                                  page_size |-> page_size], NoItems, 0, 0)
           ELSE paginated("get_product_reviews", unserializable_reviews,
                          matching, total, created_at_desc(reviews, matching),
                          flt, page, page_size)
        /\ UNCHANGED reviews

\* fault variant: the user's reviews without the deleted_at condition
user_reviews_unfiltered(rs, u) == {i \in DOMAIN rs : rs[i].user_id = u}

\* get_user_reviews: the reviews of the authenticated user
get_user_reviews_where(rs, u) ==
    {i \in DOMAIN rs : rs[i].user_id = u /\ IsNull(rs[i].deleted_at)}

get_user_reviews(u, page, page_size) ==
    LET matching == get_user_reviews_where(reviews, u)
        total == Cardinality(get_user_reviews_where(reviews, u))
    IN  /\ IF ~page_query_valid(page, page_size)
           THEN resp' = Response("get_user_reviews",
                                 HTTP_422_UNPROCESSABLE_ENTITY, UnknownId, 0,
                                 [flt |-> [user_id |-> {u}], page |-> page,
                                  page_size |-> page_size], NoItems, 0, 0)
           ELSE paginated("get_user_reviews", unserializable_reviews,
                          matching, total, created_at_desc(reviews, matching),
                          [user_id |-> {u}], page, page_size)
        /\ UNCHANGED reviews

(***************************************************************************)
(* create_review as it runs between awaits.                                *)
(***************************************************************************)
\* lines 27-39: the product query (after the body validation)
create_review_begin(slot, u, pid, text, rating) ==
    LET arg == [product_id |-> pid, text |-> text, rating |-> rating] IN
    /\ slot \notin DOMAIN inflight
    /\ IF ~rating_valid(rating)
       THEN /\ resp' = Response("create_review",
                                HTTP_422_UNPROCESSABLE_ENTITY, UnknownId, u,
                                arg, NoItems, 0, 0)
            /\ UNCHANGED inflight
       ELSE IF select_live_product(products, pid) = {}
       THEN /\ resp' = Response("create_review", HTTP_404_NOT_FOUND,
                                UnknownId, u, arg, NoItems, 0, 0)
            /\ UNCHANGED inflight
       ELSE /\ inflight' = Begin(slot, [op |-> "create_review",
                                        pc |-> "product_checked", user |-> u,
                                        product_id |-> pid, text |-> text,
                                        rating |-> rating])
            /\ UNCHANGED resp
    /\ UNCHANGED reviews

\* lines 41-54: the existing-review query
create_review_read(slot) ==
    /\ At(slot, "create_review", "product_checked")
    /\ LET c == inflight[slot]
           found == existing_review(reviews, c.user, c.product_id)
       IN  IF existing_review_status(found) # HTTP_200_OK
           THEN /\ resp' = Response("create_review",
                                    existing_review_status(found), UnknownId,
                                    c.user,
                                    [product_id |-> c.product_id,
                                     text |-> c.text, rating |-> c.rating],
                                    NoItems, 0, 0)
                /\ inflight' = Finish(slot)
           ELSE /\ inflight' = [inflight EXCEPT ![slot].pc = "review_checked"]
                /\ UNCHANGED resp
    /\ UNCHANGED reviews

\* lines 56-68: the insert and the commit
create_review_commit(slot) ==
    /\ At(slot, "create_review", "review_checked")
    /\ LET c == inflight[slot] IN
       /\ NextId(reviews) <= MaxReviews
       /\ reviews' = create_review_insert(reviews, c.user, c.product_id,
                                          c.text, c.rating, now)
       /\ resp' = Response("create_review", HTTP_200_OK, NextId(reviews),
                           c.user,
                           [product_id |-> c.product_id, text |-> c.text,
                            rating |-> c.rating], NoItems, 0, 0)
    /\ inflight' = Finish(slot)

(***************************************************************************)
(* Promotion endpoints (app/api/endpoints/promotion.py, app/db/base.py).   *)
(* A promotion row carries its rows of promotion_products as the set       *)
(* `products`.  description, url and the image fields are set like name.   *)
(***************************************************************************)
\* get_promotion_by_id: select(Promotion).where(promotion_id == id)
get_promotion_by_id(proms, id) == {i \in DOMAIN proms : i = id}

\* db.get(Product, product_id): the row with that primary key
db_get_product(ps, pid) == {i \in DOMAIN ps : i = pid}

\* PromotionResponse.products is a list of ProductInfoPromotion, whose
\* name and price are required
promotion_serializable(row, ps) ==
    \A p \in row.products : ~IsNull(ps[p].name) /\ ~IsNull(ps[p].price)

unserializable_promotions ==
    {i \in DOMAIN promotions :
        ~promotion_serializable(promotions[i], products)}

\* the status of a handler that returns the promotion `row`
promotion_response_status(row, ok) ==
    IF promotion_serializable(row, products)
    THEN ok ELSE HTTP_500_INTERNAL_SERVER_ERROR

\* PromotionCreate.end_date_after_start_date
promotion_create_valid(body) == ~(body.end_date < body.start_date)

\* the loop of create_promotion and update_promotion: append every product
\* that db.get finds, skip the others
RECURSIVE append_found(_, _)
append_found(ps, ids) ==
    IF ids = <<>> THEN {}
    ELSE db_get_product(ps, Head(ids)) \cup append_found(ps, Tail(ids))

\* body = [name, start_date, end_date, product_ids (a list, or NULL)]
create_promotion(u, body) ==
    LET id == NextId(promotions) IN
    IF ~promotion_create_valid(body)
    THEN /\ resp' = Response("create_promotion",
                             HTTP_422_UNPROCESSABLE_ENTITY, UnknownId, u, body,
                             NoItems, 0, 0)
         /\ UNCHANGED promotions
    ELSE /\ id <= MaxPromotions
         /\ promotions' = Insert(promotions, id,
                [name |-> body.name, start_date |-> body.start_date,
                 end_date |-> body.end_date,
                 products |-> UNION {append_found(products, l) :
                                     l \in body.product_ids},
                 created_at |-> now, updated_at |-> now, deleted_at |-> NULL])
         /\ resp' = Response("create_promotion",
                             promotion_response_status(promotions'[id],
                                                       HTTP_201_CREATED),
                             id, u, body, NoItems, 0, 0)

get_promotion(id) ==
    /\ resp' = Response("get_promotion",
                        IF get_promotion_by_id(promotions, id) = {}
                        THEN HTTP_404_NOT_FOUND
                        ELSE promotion_response_status(promotions[id],
                                                       HTTP_200_OK),
                        id, 0, 0, NoItems, 0, 0)
    /\ UNCHANGED promotions

\* PromotionUpdate.end_date_after_start_date: only when both are given
promotion_update_valid(body) ==
    \A e \in body.end_date : \A st \in body.start_date : ~(e < st)

\* fault variant: the assignments without `promotion.products = []`
apply_promotion_update_keeping(row, body, ps, t) ==
    [row EXCEPT
        !.name = IF IsNull(body.name) THEN @
                 ELSE CHOOSE n \in body.name : TRUE,
        !.start_date = IF IsNull(body.start_date) THEN @
                       ELSE CHOOSE d \in body.start_date : TRUE,
        !.end_date = IF IsNull(body.end_date) THEN @
                     ELSE CHOOSE d \in body.end_date : TRUE,
        !.products = @ \cup UNION {append_found(ps, l) :
                                   l \in body.product_ids},
        !.updated_at = t]

\* lines 278-314: a field is assigned when the body's value is not None
apply_promotion_update(row, body, ps, t) ==
    [row EXCEPT
        !.name = IF IsNull(body.name) THEN @
                 ELSE CHOOSE n \in body.name : TRUE,
        !.start_date = IF IsNull(body.start_date) THEN @
                       ELSE CHOOSE d \in body.start_date : TRUE,
        !.end_date = IF IsNull(body.end_date) THEN @
                     ELSE CHOOSE d \in body.end_date : TRUE,
        !.products = IF IsNull(body.product_ids) THEN @
                     ELSE UNION {append_found(ps, l) : l \in body.product_ids},
        !.updated_at = t]

\* body = [name, start_date, end_date, product_ids], each NULL or {v}
update_promotion(u, id, body) ==
    IF ~promotion_update_valid(body)
    THEN /\ resp' = Response("update_promotion",
                             HTTP_422_UNPROCESSABLE_ENTITY, id, u, body,
                             NoItems, 0, 0)
         /\ UNCHANGED promotions
    ELSE IF get_promotion_by_id(promotions, id) = {}
    THEN /\ resp' = Response("update_promotion", HTTP_404_NOT_FOUND, id, u,
                             body, NoItems, 0, 0)
         /\ UNCHANGED promotions
    ELSE /\ promotions' = [promotions EXCEPT
                ![id] = apply_promotion_update(@, body, products, now)]
         /\ resp' = Response("update_promotion",
                             promotion_response_status(promotions'[id],
                                                       HTTP_200_OK),
                             id, u, body, NoItems, 0, 0)

delete_promotion(u, id) ==
    IF get_promotion_by_id(promotions, id) = {}
    THEN /\ resp' = Response("delete_promotion", HTTP_404_NOT_FOUND, id, u, 0,
                             NoItems, 0, 0)
         /\ UNCHANGED promotions
    ELSE /\ promotions' = [promotions EXCEPT ![id].deleted_at = {now},
                                             ![id].updated_at = now]
         /\ resp' = Response("delete_promotion", HTTP_204_NO_CONTENT, id, u,
                             0, NoItems, 0, 0)

\* fault variant: the loop that skips an id db.get does not find, as the loop of
\* update_promotion does
RECURSIVE replace_products_skipping(_, _, _)
replace_products_skipping(ps, ids, acc) ==
    IF ids = <<>> THEN [raised |-> FALSE, products |-> acc]
    ELSE replace_products_skipping(ps, Tail(ids),
                                   acc \cup db_get_product(ps, Head(ids)))

\* lines 388-399: promotion.products = [], then append every product of
\* the list until db.get finds none.  Result: whether the loop raised,
\* and the collection the session holds at that point.
RECURSIVE replace_products(_, _, _)
replace_products(ps, ids, acc) ==
    IF ids = <<>> THEN [raised |-> FALSE, products |-> acc]
    ELSE IF db_get_product(ps, Head(ids)) = {}
    THEN [raised |-> TRUE, products |-> acc]
    ELSE replace_products(ps, Tail(ids), acc \cup {Head(ids)})

\* get_db (app/db/session.py): the request's session ends without a
\* commit when the handler raises, so what it held is discarded
get_db_close(committed, pending) == committed

update_promotion_products(u, id, product_ids) ==
    IF get_promotion_by_id(promotions, id) = {}
    THEN /\ resp' = Response("update_promotion_products", HTTP_404_NOT_FOUND,
                             id, u, product_ids, NoItems, 0, 0)
         /\ UNCHANGED promotions
    ELSE LET r == replace_products(products, product_ids, {})
             pending == [promotions EXCEPT ![id].products = r.products]
         IN  IF r.raised
             THEN /\ promotions' = get_db_close(promotions, pending)
                  /\ resp' = Response("update_promotion_products",
                                      HTTP_400_BAD_REQUEST, id, u, product_ids,
                                      NoItems, 0, 0)
             ELSE /\ promotions' = [pending EXCEPT ![id].updated_at = now]
                  /\ resp' = Response("update_promotion_products",
                                      promotion_response_status(
                                          promotions'[id], HTTP_200_OK),
                                      id, u, product_ids, NoItems, 0, 0)

\* list_promotions: flt = [active_only (BOOLEAN), product_id (NULL or {v})]
list_promotions_where(proms, flt, t) ==
    {i \in DOMAIN proms :
        /\ IsNull(proms[i].deleted_at)
        /\ flt.active_only =>
              proms[i].start_date <= t /\ proms[i].end_date >= t
        /\ \A p \in flt.product_id : p \in proms[i].products}

list_promotions(flt, skip, limit) ==
    LET matching == list_promotions_where(promotions, flt, now)
        total == Cardinality(list_promotions_where(promotions, flt, now))
    IN  /\ \E order \in Orders(matching, NoOrder(matching)) :
             LET items == Slice(order, skip, limit)
                 arg == [flt |-> flt, skip |-> skip, limit |-> limit]
             IN  resp' = IF Range(items) \cap unserializable_promotions # {}
                         THEN Response("list_promotions",
                                       HTTP_500_INTERNAL_SERVER_ERROR,
                                       UnknownId, 0, arg, NoItems, 0, 0)
                         ELSE Response("list_promotions", HTTP_200_OK,
                                       UnknownId, 0, arg, items, total, 0)
        /\ UNCHANGED promotions

\* get_active_promotions(session, current_date)
get_active_promotions(proms, t) ==
    {i \in DOMAIN proms : /\ proms[i].start_date <= t
                          /\ proms[i].end_date >= t
                          /\ IsNull(proms[i].deleted_at)}

get_active_promotions_list ==
    LET matching == get_active_promotions(promotions, now) IN
    /\ \E order \in Orders(matching, NoOrder(matching)) :
          resp' = IF matching \cap unserializable_promotions # {}
                  THEN Response("get_active_promotions_list",
                                HTTP_500_INTERNAL_SERVER_ERROR, UnknownId, 0,
                                0, NoItems, 0, 0)
                  ELSE Response("get_active_promotions_list", HTTP_200_OK,
                                UnknownId, 0, 0, order, 0, 0)
    /\ UNCHANGED promotions

\* get_promotions_for_product(session, product_id)
get_promotions_for_product(proms, pid) ==
    {i \in DOMAIN proms : pid \in proms[i].products
                          /\ IsNull(proms[i].deleted_at)}

get_promotions_by_product(pid) ==
    LET matching == get_promotions_for_product(promotions, pid) IN
    /\ IF db_get_product(products, pid) = {}
       THEN resp' = Response("get_promotions_by_product", HTTP_404_NOT_FOUND,
                             pid, 0, 0, NoItems, 0, 0)
       ELSE \E order \in Orders(matching, NoOrder(matching)) :
               resp' = IF matching \cap unserializable_promotions # {}
                       THEN Response("get_promotions_by_product",
                                     HTTP_500_INTERNAL_SERVER_ERROR, pid, 0,
                                     0, NoItems, 0, 0)
                       ELSE Response("get_promotions_by_product",
                                     HTTP_200_OK, pid, 0, 0, order, 0, 0)
    /\ UNCHANGED promotions

(***************************************************************************)
(* The authentication gate (app/core/security.py).  A credential is the    *)
(* bearer token of the Authorization header: NULL when the header is       *)
(* absent, {token_id} otherwise.  A token table maps token_id to           *)
(* [user_id, expired_at].                                                  *)
(***************************************************************************)
\* http_bearer = HTTPBearer(): a request without the header is refused
http_bearer(cred) ==
    IF IsNull(cred) THEN HTTP_403_FORBIDDEN ELSE HTTP_200_OK

\* select(UserToken).filter(UserToken.token_id == credentials.credentials)
select_token(tokens, cred) == {k \in DOMAIN tokens : k \in cred}

\* fault variant: `if token is None` left out, the first token is returned
get_token_unchecked(tokens, cred) ==
    [status |-> HTTP_200_OK, token |-> {k \in DOMAIN tokens : k = 1}]

\* get_token: the token record of the credential, or 401
get_token(tokens, cred) ==
    LET found == select_token(tokens, cred) IN
    IF found = {}
    THEN [status |-> HTTP_401_UNAUTHORIZED, token |-> NULL]
    ELSE [status |-> HTTP_200_OK, token |-> found]

\* fault variant: a token that expires now counts as expired
is_expired_now_included(row, t) == row.expired_at <= t

\* UserToken.is_expired: self.expired_at < dt.now()
is_expired(row, t) == row.expired_at < t

\* get_token_if_not_expired: the record unless there is none or it expired
get_token_if_not_expired(tokens, cred, t) ==
    LET found == select_token(tokens, cred) IN
    IF found = {} \/ \E k \in found : is_expired(tokens[k], t)
    THEN [status |-> HTTP_401_UNAUTHORIZED, token |-> NULL]
    ELSE [status |-> HTTP_200_OK, token |-> found]

\* get_current_user: the gate yields the token and, through it, the owning
\* user to the handler
get_current_user(tokens, cred) ==
    IF http_bearer(cred) # HTTP_200_OK
    THEN [status |-> http_bearer(cred), user |-> NULL]
    ELSE LET r == get_token(tokens, cred) IN
         [status |-> r.status,
          user |-> {tokens[k].user_id : k \in r.token}]

\* Depends(get_current_user): the dependency is resolved before the handler
\* body runs; when it raises, the request ends with its status
Rejected(cred, op) ==
    LET auth == get_current_user(token_table, cred) IN
    /\ auth.status # HTTP_200_OK
    /\ resp' = Response(op, auth.status, UnknownId, 0, 0, NoItems, 0, 0)
    /\ UNCHANGED <<categories, products, reviews, cart_items, cart_seq,
                   promotions, now, inflight, elsewhere>>

\* current_user, when the dependency returns
Admitted(cred) ==
    LET auth == get_current_user(token_table, cred) IN
    IF auth.status = HTTP_200_OK THEN auth.user ELSE {}

(***************************************************************************)
(* Requests: one action per endpoint, its inputs drawn from small sets.    *)
(* current_user is the user the bearer token resolves to.                  *)
(***************************************************************************)
Quantities == {1, 2}
PageNumbers == {1, 2}
PageSizes == {1, 2}
Optional(S) == {NULL} \cup {{v} : v \in S}
Field(S) == {Unset} \cup {Sent(v) : v \in Optional(S)}
ListsUpTo(S, n) == UNION {[1..k -> S] : k \in 0..n}

CategoryFrame ==
    UNCHANGED <<products, reviews, cart_items, cart_seq, promotions, now,
                inflight, elsewhere>>
ProductFrame ==
    UNCHANGED <<categories, reviews, cart_items, cart_seq, promotions, now,
                inflight, elsewhere>>
CartFrame ==
    UNCHANGED <<categories, products, reviews, promotions, now, inflight,
                elsewhere>>
ReviewFrame ==
    UNCHANGED <<categories, products, cart_items, cart_seq, promotions, now,
                inflight, elsewhere>>
PromotionFrame ==
    UNCHANGED <<categories, products, reviews, cart_items, cart_seq, now,
                inflight, elsewhere>>

CreateCategory(names) ==
    \E u \in Users, name \in names :
        create_category(u, name) /\ CategoryFrame

CreateProduct(names, prices) ==
    \E u \in Users, name \in names, price \in prices, c \in CategoryIds :
        create_product(u, name, price, c) /\ ProductFrame

DeleteProduct ==
    \E u \in Users, id \in ProductIds : delete_product(u, id) /\ ProductFrame

AddToCart ==
    \E u \in Users, pid \in ProductIds, q \in Quantities :
        add_to_cart(u, pid, q) /\ CartFrame

GetCartItem ==
    \E u \in Users, id \in CartItemIds : get_cart_item(u, id) /\ CartFrame

UpdateCartItem ==
    \E u \in Users, id \in CartItemIds, quantity \in Field(Quantities) :
        update_cart_item(u, id, [quantity |-> quantity]) /\ CartFrame

RemoveFromCart ==
    \E u \in Users, id \in CartItemIds : remove_from_cart(u, id) /\ CartFrame

ClearCart == \E u \in Users : clear_cart(u) /\ CartFrame

GetCartItemCount == \E u \in Users : get_cart_item_count(u) /\ CartFrame

GetCartItems ==
    \E u \in Users, page \in PageNumbers, page_size \in PageSizes,
       product_id \in Optional(ProductIds),
       min_quantity \in Optional(Quantities),
       max_quantity \in Optional(Quantities) :
        get_cart_items(u, [product_id |-> product_id,
                           min_quantity |-> min_quantity,
                           max_quantity |-> max_quantity], page, page_size)
        /\ CartFrame

(***************************************************************************)
(* The cart, one request at a time.                                        *)
(***************************************************************************)
NextCart ==
    \/ CreateCategory({"a"})
    \/ CreateProduct({"a"}, {1})
    \/ DeleteProduct
    \/ AddToCart
    \/ GetCartItem
    \/ UpdateCartItem
    \/ RemoveFromCart
    \/ ClearCart
    \/ GetCartItemCount

SpecCart == Init /\ [][NextCart]_vars

(***************************************************************************)
(* The cart under concurrent add_to_cart requests: the statements of up to *)
(* MaxInFlight requests interleave.                                        *)
(***************************************************************************)
StepFrame ==
    UNCHANGED <<categories, products, reviews, promotions, now, elsewhere>>

AddToCartBegin ==
    \E slot \in Slots, u \in Users, pid \in ProductIds, q \in Quantities :
        /\ \A other \in Slots : other < slot => other \in DOMAIN inflight
        /\ add_to_cart_begin(slot, u, pid, q)
        /\ StepFrame

AddToCartRead == \E slot \in Slots : add_to_cart_read(slot) /\ StepFrame

AddToCartCommit == \E slot \in Slots : add_to_cart_commit(slot) /\ StepFrame

NextCartConcurrent ==
    \/ CreateCategory({"a"})
    \/ CreateProduct({"a"}, {1})
    \/ AddToCartBegin
    \/ AddToCartRead
    \/ AddToCartCommit

SpecCartConcurrent == Init /\ [][NextCartConcurrent]_vars

(***************************************************************************)
(* Properties of the cart.                                                 *)
(***************************************************************************)
RowsOf(cart, u, pid) ==
    {i \in DOMAIN cart : cart[i].user_id = u /\ cart[i].product_id = pid}

\* C1: in every reachable state, under any interleaving of the read and
\* write steps of add_to_cart requests, cart_items holds at most one row
\* per (user_id, product_id) pair.
C1_AtMostOneRowPerPair ==
    \A i, j \in DOMAIN cart_items :
        (/\ cart_items[i].user_id = cart_items[j].user_id
         /\ cart_items[i].product_id = cart_items[j].product_id) => i = j

\* C2: a successful add_to_cart by user u for product p with quantity q
\* leaves exactly one row for (u, p).  The first call (no row before)
\* stores quantity q; a second call (the row exists) inserts nothing,
\* returns that row, and its quantity is the sum of what it held and q:
\* q1 then q2 gives one row with q1 + q2.
C2_Step(before, after, r) ==
    LET u == r.user
        p == r.arg.product_id
        q == r.arg.quantity
        old == RowsOf(before, u, p)
        new == RowsOf(after, u, p)
    IN  /\ Cardinality(new) = 1
        /\ r.id \in new
        /\ old = {} => after[r.id].quantity = {q}
        /\ old # {} => /\ DOMAIN after = DOMAIN before
                       /\ new = old
                       /\ after[r.id].quantity =
                             {v + q : v \in before[r.id].quantity}
                       /\ \A i \in DOMAIN before \ {r.id} :
                             after[i] = before[i]

C2_AddTwiceSumsQuantities ==
    [][(resp'.op = "add_to_cart" /\ resp'.status = HTTP_201_CREATED)
          => C2_Step(cart_items, cart_items', resp')]_vars

\* the second call has happened: the row returned holds more than the
\* quantity this call asked for
C2_Witness ==
    /\ resp.op = "add_to_cart"
    /\ resp.status = HTTP_201_CREATED
    /\ resp.arg.quantity = 2
    /\ cart_items[resp.id].quantity = {3}
    /\ Cardinality(DOMAIN cart_items) = 2

(***************************************************************************)
(* Reviews, one request at a time.                                         *)
(***************************************************************************)
RatingInputs == {0, 1, 5}

CreateReview(users, ratings) ==
    \E u \in users, pid \in ProductIds, text \in Texts, rating \in ratings :
        create_review(u, pid, text, rating) /\ ReviewFrame

UpdateReview(texts, ratings) ==
    \E u \in Users, id \in ReviewIds, text \in texts, rating \in ratings :
        update_review(u, id, [text |-> text, rating |-> rating])
        /\ ReviewFrame

DeleteReview ==
    \E u \in Users, id \in ReviewIds : delete_review(u, id) /\ ReviewFrame

GetReview == \E id \in ReviewIds : get_review(id) /\ ReviewFrame

NextReview ==
    \/ CreateCategory({"a"})
    \/ CreateProduct({"a"}, {1})
    \/ DeleteProduct
    \/ CreateReview(Users, RatingInputs)
    \/ UpdateReview({Unset}, {Unset, Sent(NULL), Sent({5}), Sent({6})})
    \/ DeleteReview
    \/ GetReview

SpecReview == Init /\ [][NextReview]_vars

(***************************************************************************)
(* Reviews under concurrent create_review requests.                        *)
(***************************************************************************)
CreateReviewBegin(ratings) ==
    \E slot \in Slots, u \in Users, pid \in ProductIds, text \in Texts,
       rating \in ratings :
        /\ \A other \in Slots : other < slot => other \in DOMAIN inflight
        /\ create_review_begin(slot, u, pid, text, rating)
        /\ UNCHANGED <<categories, products, cart_items, cart_seq,
                       promotions, now, elsewhere>>

CreateReviewRead ==
    \E slot \in Slots :
        /\ create_review_read(slot)
        /\ UNCHANGED <<categories, products, cart_items, cart_seq,
                       promotions, now, elsewhere>>

CreateReviewCommit ==
    \E slot \in Slots :
        /\ create_review_commit(slot)
        /\ UNCHANGED <<categories, products, cart_items, cart_seq,
                       promotions, now, elsewhere>>

NextReviewConcurrent ==
    \/ CreateCategory({"a"})
    \/ CreateProduct({"a"}, {1})
    \/ CreateReviewBegin({0, 1})
    \/ CreateReviewRead
    \/ CreateReviewCommit
    \/ UpdateReview({Unset}, {Sent({5})})
    \/ DeleteReview

SpecReviewConcurrent == Init /\ [][NextReviewConcurrent]_vars

(***************************************************************************)
(* Properties of review creation.                                          *)
(***************************************************************************)
LiveReviewsOf(rs, u, pid) ==
    {i \in DOMAIN rs : /\ rs[i].user_id = u
                       /\ rs[i].product_id = pid
                       /\ rs[i].deleted_at = NULL}

\* C3: in every reachable state, under any interleaving of create_review,
\* update_review and delete_review requests, there is at most one review
\* with deleted_at null per (user_id, product_id) pair.
C3_AtMostOneLiveReviewPerPair ==
    \A i, j \in DOMAIN reviews :
        (/\ reviews[i].user_id = reviews[j].user_id
         /\ reviews[i].product_id = reviews[j].product_id
         /\ reviews[i].deleted_at = NULL
         /\ reviews[j].deleted_at = NULL) => i = j

\* a create_review request with a body the schema accepts, by a user who
\* has a non-deleted review of the product
C4_SecondCreate ==
    /\ resp'.op = "create_review"
    /\ resp'.status # HTTP_422_UNPROCESSABLE_ENTITY
    /\ LiveReviewsOf(reviews, resp'.user, resp'.arg.product_id) # {}

\* C4 as stated: a user who already has a non-deleted review for a
\* product and calls create_review for that product again gets 400, no
\* review row is inserted and the existing review is unchanged.
C4_SecondCreateIs400 ==
    [][C4_SecondCreate =>
          (resp'.status = HTTP_400_BAD_REQUEST /\ reviews' = reviews)]_vars

\* C4 as amended: the second create_review fails with 400 while the
\* product is live and with 404 once the product is soft-deleted; in both
\* cases no review row is inserted and the existing review is unchanged.
C4_SecondCreateFails ==
    [][C4_SecondCreate =>
          /\ resp'.status =
                IF products[resp'.arg.product_id].deleted_at = NULL
                THEN HTTP_400_BAD_REQUEST ELSE HTTP_404_NOT_FOUND
          /\ reviews' = reviews]_vars

\* the second create_review has been refused with 400
C4_Witness ==
    /\ resp.op = "create_review"
    /\ resp.status = HTTP_400_BAD_REQUEST
    /\ LiveReviewsOf(reviews, resp.user, resp.arg.product_id) # {}

(***************************************************************************)
(* Categories, products and reviews: create, read, update, soft-delete.    *)
(***************************************************************************)
UpdateCategory(names) ==
    \E u \in Users, id \in CategoryIds, name \in names :
        update_category(u, id, [name |-> name]) /\ CategoryFrame

GetCategory == \E id \in CategoryIds : get_category(id) /\ CategoryFrame

DeleteCategory ==
    \E u \in Users, id \in CategoryIds :
        delete_category(u, id) /\ CategoryFrame

UpdateProduct(names, prices, cats) ==
    \E u \in Users, id \in ProductIds, name \in names, price \in prices,
       c \in cats :
        update_product(u, id, [name |-> name, price |-> price,
                               category_id |-> c])
        /\ ProductFrame

GetProduct == \E id \in ProductIds : get_product(id) /\ ProductFrame

NextReadAfterDelete ==
    \/ CreateCategory({"a"})
    \/ UpdateCategory({Sent({"ab"})})
    \/ GetCategory
    \/ DeleteCategory
    \/ CreateProduct({"a"}, {1})
    \/ UpdateProduct({Unset, Sent({"ab"})}, {Unset}, {Unset, Sent({1})})
    \/ GetProduct
    \/ DeleteProduct
    \/ CreateReview({1}, {1})
    \/ UpdateReview({Unset}, {Unset, Sent({5}), Sent({6})})
    \/ GetReview
    \/ DeleteReview

SpecReadAfterDelete == Init /\ [][NextReadAfterDelete]_vars

SoftDeleted(table, id) == id \in DOMAIN table /\ table[id].deleted_at # NULL

\* C5: once a category, product or review has been soft-deleted by a
\* successful DELETE, every later GET or PUT by that id (a PUT whose body
\* the schema accepts) is answered 404.
C5_GetOrPutAfterDeleteIs404 ==
    /\ (resp.op \in {"get_category", "update_category"}
           /\ SoftDeleted(categories, resp.id))
          => resp.status = HTTP_404_NOT_FOUND
    /\ (resp.op \in {"get_product", "update_product"}
           /\ SoftDeleted(products, resp.id))
          => resp.status = HTTP_404_NOT_FOUND
    /\ (resp.op = "get_review" /\ SoftDeleted(reviews, resp.id))
          => resp.status = HTTP_404_NOT_FOUND
    /\ (resp.op = "update_review" /\ SoftDeleted(reviews, resp.id)
           /\ review_update_valid(resp.arg))
          => resp.status = HTTP_404_NOT_FOUND

\* a PUT on a soft-deleted product has been answered
C5_Witness ==
    /\ resp.op = "update_product"
    /\ SoftDeleted(products, resp.id)
    /\ resp.arg.name.sent
    /\ resp.status = HTTP_404_NOT_FOUND

(***************************************************************************)
(* Promotions.                                                             *)
(***************************************************************************)
CreatePromotion(names, starts, ends, lists) ==
    \E u \in Users, name \in names, st \in starts, e \in ends, l \in lists :
        create_promotion(u, [name |-> name, start_date |-> st,
                             end_date |-> e, product_ids |-> l])
        /\ PromotionFrame

GetPromotion == \E id \in PromotionIds : get_promotion(id) /\ PromotionFrame

UpdatePromotion(names, starts, ends, lists) ==
    \E u \in Users, id \in PromotionIds, name \in names, st \in starts,
       e \in ends, l \in lists :
        update_promotion(u, id, [name |-> name, start_date |-> st,
                                 end_date |-> e, product_ids |-> l])
        /\ PromotionFrame

DeletePromotion ==
    \E u \in Users, id \in PromotionIds :
        delete_promotion(u, id) /\ PromotionFrame

UpdatePromotionProducts ==
    \E u \in Users, id \in PromotionIds,
       l \in ListsUpTo(ProductIds, MaxIdList) :
        update_promotion_products(u, id, l) /\ PromotionFrame

NextPromotion ==
    \/ Tick
    \/ CreateCategory({"a"})
    \/ CreateProduct({"a"}, {1})
    \/ DeleteProduct
    \/ CreatePromotion({"a"}, {0}, {0, MaxTime}, {NULL, {<<1>>}})
    \/ GetPromotion
    \/ UpdatePromotion({NULL}, {NULL, {MaxTime}}, {NULL, {0}},
                       {NULL, {<<>>}, {<<2, 1>>}})
    \/ DeletePromotion
    \/ UpdatePromotionProducts

SpecPromotion == Init /\ [][NextPromotion]_vars

\* the step is a request: the clock stands still
Request == now' = now

\* C6: get_promotion, update_promotion and update_promotion_products on a
\* soft-deleted promotion are answered 404.
C6_DeletedPromotionIs404 ==
    (/\ resp.op \in {"get_promotion", "update_promotion",
                      "update_promotion_products"}
     /\ SoftDeleted(promotions, resp.id))
        => resp.status \in {HTTP_404_NOT_FOUND, HTTP_422_UNPROCESSABLE_ENTITY}

MissingAt(l, ps) == {k \in 1..Len(l) : l[k] \notin DOMAIN ps}

\* update_promotion_products on a live promotion with a list that names a
\* product id no row has
C10_MissingId ==
    /\ Request
    /\ resp'.op = "update_promotion_products"
    /\ resp'.id \in Live(promotions)
    /\ MissingAt(resp'.arg, products) # {}

PageInputs == {<<1, 2>>, <<2, 1>>}

ProductFilter(name, category_id) ==
    [name |-> name, min_price |-> NULL, max_price |-> NULL,
     min_rating |-> NULL, category_id |-> category_id]

ReviewFilter(product_id, user_id) ==
    [product_id |-> product_id, user_id |-> user_id, min_rating |-> NULL,
     max_rating |-> NULL]

GetCategories ==
    \E pg \in PageInputs : get_categories(pg[1], pg[2]) /\ CategoryFrame

ListProducts(names) ==
    \E pg \in PageInputs, name \in names :
        list_products(ProductFilter(name, NULL), pg[1], pg[2])
        /\ ProductFrame

SearchProducts(queries) ==
    \E pg \in PageInputs, q \in queries :
        search_products(ProductFilter({q}, NULL), pg[1], pg[2])
        /\ ProductFrame

ListProductsByCategory ==
    \E pg \in PageInputs, c \in CategoryIds :
        list_products_by_category(ProductFilter(NULL, {c}), pg[1], pg[2])
        /\ ProductFrame

ListReviews(users, product_ids) ==
    \E u \in users, pg \in PageInputs, pid \in product_ids :
        list_reviews(u, ReviewFilter(pid, NULL), pg[1], pg[2])
        /\ ReviewFrame

GetProductReviews ==
    \E pg \in PageInputs, pid \in ProductIds :
        get_product_reviews(ReviewFilter({pid}, NULL), pg[1], pg[2])
        /\ ReviewFrame

GetUserReviews(users) ==
    \E u \in users, pg \in PageInputs :
        get_user_reviews(u, pg[1], pg[2]) /\ ReviewFrame

ListPromotions(actives, product_ids) ==
    \E active_only \in actives, pid \in product_ids, pg \in PageInputs :
        list_promotions([active_only |-> active_only, product_id |-> pid],
                        pg[1] - 1, pg[2])
        /\ PromotionFrame

GetActivePromotionsList == get_active_promotions_list /\ PromotionFrame

GetPromotionsByProduct ==
    \E pid \in ProductIds : get_promotions_by_product(pid) /\ PromotionFrame

NextListing ==
    \/ CreateCategory({"a"})
    \/ DeleteCategory
    \/ GetCategories
    \/ CreateProduct({"a"}, {1})
    \/ DeleteProduct
    \/ ListProducts({NULL})
    \/ SearchProducts({"a"})
    \/ ListProductsByCategory
    \/ CreateReview({1}, {1})
    \/ DeleteReview
    \/ ListReviews({1}, {NULL})
    \/ GetProductReviews
    \/ GetUserReviews(Users)
    \/ CreatePromotion({"a"}, {0}, {0}, {NULL, {<<1>>}})
    \/ DeletePromotion
    \/ ListPromotions({FALSE, TRUE}, {NULL, {1}})
    \/ GetActivePromotionsList
    \/ GetPromotionsByProduct

SpecListing == Init /\ [][NextListing]_vars

\* the listing `op` has answered with rows of `table` only if they are
\* live, and its total is at most the number of live rows
ListsLiveOnly(ops, table) ==
    resp.op \in ops =>
        /\ Range(resp.items) \subseteq Live(table)
        /\ resp.total <= Cardinality(Live(table))

\* the request left every optional filter out
Unfiltered == \A f \in DOMAIN resp.arg.flt : resp.arg.flt[f] = NULL

\* the listing `op` of `table`, asked without filters, counts exactly the
\* live rows
CountsLive(op, table, unfiltered) ==
    (resp.op = op /\ resp.status = HTTP_200_OK /\ unfiltered)
        => resp.total = Cardinality(Live(table))

\* C7: no listing returns a soft-deleted row, and every total counts live
\* rows only: categories; products listed, searched and by category;
\* reviews listed, by product and of the user; promotions listed, active
\* and by product.
C7_ListingsExcludeSoftDeleted ==
    /\ ListsLiveOnly({"get_categories"}, categories)
    /\ ListsLiveOnly({"list_products", "search_products",
                      "list_products_by_category"}, products)
    /\ ListsLiveOnly({"list_reviews", "get_product_reviews",
                      "get_user_reviews"}, reviews)
    /\ ListsLiveOnly({"list_promotions", "get_active_promotions_list",
                      "get_promotions_by_product"}, promotions)
    /\ CountsLive("get_categories", categories, TRUE)
    /\ CountsLive("list_products", products, Unfiltered)
    /\ CountsLive("list_reviews", reviews, Unfiltered)
    /\ CountsLive("list_promotions", promotions,
                  ~resp.arg.flt.active_only /\ resp.arg.flt.product_id = NULL)

\* the user's reviews have been listed while one of them is soft-deleted
\* and another is live
C7_Witness ==
    /\ resp.op = "get_user_reviews"
    /\ resp.status = HTTP_200_OK
    /\ resp.total = 1
    /\ Len(resp.items) = 1
    /\ \E i \in DOMAIN reviews :
          reviews[i].user_id \in resp.arg.flt.user_id
          /\ SoftDeleted(reviews, i)

(***************************************************************************)
(* Soft deletion of the four kinds of rows, with the clock advancing.      *)
(***************************************************************************)
NextSoftDelete ==
    \/ Tick
    \/ CreateCategory({"a"})
    \/ DeleteCategory
    \/ CreateProduct({"a"}, {1})
    \/ DeleteProduct
    \/ CreateReview({1}, {1})
    \/ DeleteReview
    \/ CreatePromotion({"a"}, {0}, {0}, {NULL})
    \/ DeletePromotion

SpecSoftDelete == Init /\ [][NextSoftDelete]_vars

\* the request was DELETE `op` on a row of `table` (before, `after` it)
\* that was already soft-deleted: it is answered 404 and changes nothing
SecondDeleteIsNoOp(op, table, after) ==
    (Request /\ resp'.op = op /\ SoftDeleted(table, resp'.id))
        => (resp'.status = HTTP_404_NOT_FOUND /\ after = table)

\* C8: a second DELETE of a category, product, review or promotion that
\* is already soft-deleted is answered 404 and changes no row; deleted_at
\* keeps its first value.
C8_SecondDeleteIsNotFound ==
    [][/\ SecondDeleteIsNoOp("delete_category", categories, categories')
       /\ SecondDeleteIsNoOp("delete_product", products, products')
       /\ SecondDeleteIsNoOp("delete_review", reviews, reviews')
       /\ SecondDeleteIsNoOp("delete_promotion", promotions,
                             promotions')]_vars

\* every row of `table` is still there `after` the step
Keeps(table, after) == DOMAIN table \subseteq DOMAIN after

\* a DELETE `op` answered 204 turned deleted_at of its row from null to a
\* timestamp and, but for that row's updated_at, changed nothing else
OnlySoftDeletes(op, table, after) ==
    (Request /\ resp'.op = op /\ resp'.status = HTTP_204_NO_CONTENT) =>
        /\ DOMAIN after = DOMAIN table
        /\ table[resp'.id].deleted_at = NULL
        /\ after[resp'.id].deleted_at # NULL
        /\ after = [table EXCEPT
                        ![resp'.id].deleted_at = after[resp'.id].deleted_at,
                        ![resp'.id].updated_at = after[resp'.id].updated_at]

\* C9: no request removes a category, product, review or promotion row,
\* and a successful DELETE only turns deleted_at of its row from null to
\* a timestamp.
C9_RowsAreNeverRemoved ==
    [][/\ Keeps(categories, categories') /\ Keeps(products, products')
       /\ Keeps(reviews, reviews') /\ Keeps(promotions, promotions')
       /\ OnlySoftDeletes("delete_category", categories, categories')
       /\ OnlySoftDeletes("delete_product", products, products')
       /\ OnlySoftDeletes("delete_review", reviews, reviews')
       /\ OnlySoftDeletes("delete_promotion", promotions,
                          promotions')]_vars

(***************************************************************************)
(* Properties of promotion associations and dates.                         *)
(***************************************************************************)
\* the ids of the list that name a product row
Existing(l, ps) == {l[k] : k \in 1..Len(l)} \cap DOMAIN ps

\* the ids of product_ids (a list, or NULL when omitted) that name a row
ExistingOf(product_ids, ps) == UNION {Existing(l, ps) : l \in product_ids}

\* a promotion request that passed validation and was not answered 404
C11_Accepted(op) ==
    /\ Request
    /\ resp'.op = op
    /\ resp'.status \notin {HTTP_422_UNPROCESSABLE_ENTITY, HTTP_404_NOT_FOUND}

\* C11: create_promotion and update_promotion never fail over a missing
\* product id and save exactly the ids of product_ids that exist (nothing
\* held before is kept); update_promotion without product_ids leaves the
\* associations as they were; a successful update_promotion_products
\* leaves exactly the ids of its list.
C11_AssociationsAreReplaced ==
    [][/\ C11_Accepted("create_promotion") =>
             /\ resp'.status = HTTP_201_CREATED
             /\ promotions'[resp'.id].products =
                    ExistingOf(resp'.arg.product_ids, products)
       /\ (C11_Accepted("update_promotion")
              /\ resp'.id \in Live(promotions)) =>
             /\ resp'.status = HTTP_200_OK
             /\ promotions'[resp'.id].products =
                    IF resp'.arg.product_ids = NULL
                    THEN promotions[resp'.id].products
                    ELSE ExistingOf(resp'.arg.product_ids, products)
       /\ (C11_Accepted("update_promotion_products")
              /\ resp'.id \in Live(promotions)
              /\ resp'.status = HTTP_200_OK) =>
             promotions'[resp'.id].products =
                {resp'.arg[k] : k \in 1..Len(resp'.arg)}]_vars

\* update_promotion was given <<2, 1>> while product 2 did not exist and
\* the promotion held no association: it is saved with product 1 only
C11_Witness ==
    /\ resp.op = "update_promotion"
    /\ resp.status = HTTP_200_OK
    /\ resp.arg.product_ids = {<<2, 1>>}
    /\ DOMAIN products = {1}
    /\ promotions[resp.id].products = {1}

\* C12: every stored promotion has end_date >= start_date.
C12_EndNotBeforeStart ==
    \A i \in DOMAIN promotions :
        promotions[i].end_date >= promotions[i].start_date

\* C14: no request adds an association between a promotion and a product
\* that is soft-deleted at the time, and get_promotions_by_product of a
\* soft-deleted product is answered 404.
C14_SoftDeletedProductIsMissing ==
    [][Request =>
          /\ \A i \in DOMAIN promotions' :
                \A p \in promotions'[i].products :
                    SoftDeleted(products, p) =>
                        (i \in DOMAIN promotions
                           /\ p \in promotions[i].products)
          /\ (resp'.op = "get_promotions_by_product"
                 /\ SoftDeleted(products, resp'.id))
                => resp'.status = HTTP_404_NOT_FOUND]_vars

(***************************************************************************)
(* Requests that name a product: cart items and reviews.                   *)
(***************************************************************************)
NextProductReference ==
    \/ CreateCategory({"a"})
    \/ CreateProduct({"a"}, {1})
    \/ DeleteProduct
    \/ AddToCart
    \/ CreateReview(Users, {0, 1})

SpecProductReference == Init /\ [][NextProductReference]_vars

(***************************************************************************)
(* Properties of references to categories and products.                    *)
(***************************************************************************)
\* update_product on a live product with a category_id other than the one
\* it has
ChangesCategory(body, row) ==
    /\ body.category_id.sent
    /\ body.category_id.val # NULL
    /\ body.category_id.val # row.category_id

\* C13: create_product, and update_product when it changes category_id,
\* are answered 404 and leave the products as they were whenever the
\* category named is absent or soft-deleted.
C13_CategoryMustBeLive ==
    [][/\ (Request /\ resp'.op = "create_product"
              /\ resp'.arg \notin Live(categories))
             => (resp'.status = HTTP_404_NOT_FOUND /\ products' = products)
       /\ (Request /\ resp'.op = "update_product"
              /\ resp'.id \in Live(products)
              /\ ChangesCategory(resp'.arg, products[resp'.id])
              /\ resp'.arg.category_id.val \cap Live(categories) = {})
             => (resp'.status = HTTP_404_NOT_FOUND
                   /\ products' = products)]_vars

\* C15: add_to_cart and create_review (with a body the schema accepts)
\* are answered 404 and change no row whenever the product named is absent
\* or soft-deleted.
C15_ProductMustBeLive ==
    [][(/\ Request
        /\ resp'.op \in {"add_to_cart", "create_review"}
        /\ resp'.status # HTTP_422_UNPROCESSABLE_ENTITY
        /\ resp'.arg.product_id \notin Live(products))
          => /\ resp'.status = HTTP_404_NOT_FOUND
             /\ cart_items' = cart_items
             /\ reviews' = reviews]_vars

\* add_to_cart has been refused for a soft-deleted product that the user
\* has in the cart
C15_Witness ==
    /\ resp.op = "add_to_cart"
    /\ resp.status = HTTP_404_NOT_FOUND
    /\ SoftDeleted(products, resp.arg.product_id)
    /\ RowsOf(cart_items, resp.user, resp.arg.product_id) # {}

\* C16: every stored cart item has a quantity, and it is at least 1.
C16_QuantityAtLeastOne ==
    \A i \in DOMAIN cart_items :
        /\ cart_items[i].quantity # NULL
        /\ \A q \in cart_items[i].quantity : q >= 1

\* C17: every stored review has a rating, and it is in 1..5.
C17_RatingInRange ==
    \A i \in DOMAIN reviews :
        /\ reviews[i].rating # NULL
        /\ \A r \in reviews[i].rating : rating_valid(r)

(***************************************************************************)
(* Reviews changed by their author and by others, with the clock           *)
(* advancing.                                                              *)
(***************************************************************************)
NextReviewAuthor ==
    \/ Tick
    \/ CreateCategory({"a"})
    \/ CreateProduct({"a"}, {1})
    \/ CreateReview(Users, {1})
    \/ UpdateReview({Unset, Sent({"t"})}, {Unset, Sent({5})})
    \/ DeleteReview

SpecReviewAuthor == Init /\ [][NextReviewAuthor]_vars

\* update_review (with a body the schema accepts) or delete_review of a
\* live review by a user who did not write it
C18_ByAnother ==
    /\ Request
    /\ resp'.op \in {"update_review", "delete_review"}
    /\ resp'.op = "update_review" => review_update_valid(resp'.arg)
    /\ resp'.id \in Live(reviews)
    /\ reviews[resp'.id].user_id # resp'.user

\* C18: update_review and delete_review by a user other than the author
\* are answered 403 and leave the review as it was; a stored review
\* changes only by an update_review or delete_review of its author.
C18_OnlyTheAuthorChanges ==
    [][/\ C18_ByAnother =>
             (resp'.status = HTTP_403_FORBIDDEN /\ reviews' = reviews)
       /\ Request =>
             \A i \in DOMAIN reviews :
                 reviews'[i] # reviews[i] =>
                     /\ resp'.op \in {"update_review", "delete_review"}
                     /\ resp'.id = i
                     /\ resp'.user = reviews[i].user_id]_vars

\* another user's delete_review has been refused, later than the review
\* was written
C18_Witness ==
    /\ resp.op = "delete_review"
    /\ resp.status = HTTP_403_FORBIDDEN
    /\ resp.id \in Live(reviews)
    /\ reviews[resp.id].user_id # resp.user
    /\ reviews[resp.id].updated_at < now

(***************************************************************************)
(* The mutating endpoints behind the authentication gate.  `creds` are the *)
(* credentials the requests may carry.                                     *)
(***************************************************************************)
\* no header, a token id that no record has, the token of user 1
Credentials == Optional(DOMAIN user_tokens \cup {UnknownId})

\* the credentials that match no token record
BadCredentials == {c \in Credentials : select_token(user_tokens, c) = {}}

\* the POST endpoints that insert rows
CreatingRequest(creds) ==
    \/ \E cred \in creds :
           \/ Rejected(cred, "create_category")
           \/ \E u \in Admitted(cred) :
                  /\ create_category(u, "a")
                  /\ CategoryFrame
    \/ \E cred \in creds, c \in CategoryIds :
           \/ Rejected(cred, "create_product")
           \/ \E u \in Admitted(cred) :
                  /\ create_product(u, "a", 1, c)
                  /\ ProductFrame
    \/ \E cred \in creds, pid \in ProductIds :
           \/ Rejected(cred, "add_to_cart")
           \/ \E u \in Admitted(cred) :
                  /\ add_to_cart(u, pid, 1)
                  /\ CartFrame
    \/ \E cred \in creds, pid \in ProductIds :
           \/ Rejected(cred, "create_review")
           \/ \E u \in Admitted(cred) :
                  /\ create_review(u, pid, "t", 1)
                  /\ ReviewFrame
    \/ \E cred \in creds :
           \/ Rejected(cred, "create_promotion")
           \/ \E u \in Admitted(cred) :
                  /\ create_promotion(u, [name |-> "a",
                    start_date |-> 0, end_date |-> 0, product_ids |-> NULL])
                  /\ PromotionFrame

\* the PUT and DELETE endpoints, and POST /promotions/{id}/products
ChangingRequest(creds) ==
    \/ \E cred \in creds, id \in CategoryIds :
           \/ Rejected(cred, "update_category")
           \/ \E u \in Admitted(cred) :
                  /\ update_category(u, id,
                    [name |-> Sent({"ab"})])
                  /\ CategoryFrame
    \/ \E cred \in creds, id \in CategoryIds :
           \/ Rejected(cred, "delete_category")
           \/ \E u \in Admitted(cred) :
                  /\ delete_category(u, id)
                  /\ CategoryFrame
    \/ \E cred \in creds, id \in ProductIds :
           \/ Rejected(cred, "update_product")
           \/ \E u \in Admitted(cred) :
                  /\ update_product(u, id, [name |-> Sent({"ab"}),
                    price |-> Unset, category_id |-> Unset])
                  /\ ProductFrame
    \/ \E cred \in creds, id \in ProductIds :
           \/ Rejected(cred, "delete_product")
           \/ \E u \in Admitted(cred) :
                  /\ delete_product(u, id)
                  /\ ProductFrame
    \/ \E cred \in creds, id \in CartItemIds :
           \/ Rejected(cred, "update_cart_item")
           \/ \E u \in Admitted(cred) :
                  /\ update_cart_item(u, id,
                    [quantity |-> Sent({2})])
                  /\ CartFrame
    \/ \E cred \in creds, id \in CartItemIds :
           \/ Rejected(cred, "remove_from_cart")
           \/ \E u \in Admitted(cred) :
                  /\ remove_from_cart(u, id)
                  /\ CartFrame
    \/ \E cred \in creds :
           \/ Rejected(cred, "clear_cart")
           \/ \E u \in Admitted(cred) :
                  /\ clear_cart(u)
                  /\ CartFrame
    \/ \E cred \in creds, id \in ReviewIds :
           \/ Rejected(cred, "update_review")
           \/ \E u \in Admitted(cred) :
                  /\ update_review(u, id, [text |-> Unset,
                    rating |-> Sent({5})])
                  /\ ReviewFrame
    \/ \E cred \in creds, id \in ReviewIds :
           \/ Rejected(cred, "delete_review")
           \/ \E u \in Admitted(cred) :
                  /\ delete_review(u, id)
                  /\ ReviewFrame
    \/ \E cred \in creds, id \in PromotionIds :
           \/ Rejected(cred, "update_promotion")
           \/ \E u \in Admitted(cred) :
                  /\ update_promotion(u, id, [name |-> {"ab"},
                    start_date |-> NULL, end_date |-> NULL, product_ids |-> NULL])
                  /\ PromotionFrame
    \/ \E cred \in creds, id \in PromotionIds :
           \/ Rejected(cred, "delete_promotion")
           \/ \E u \in Admitted(cred) :
                  /\ delete_promotion(u, id)
                  /\ PromotionFrame
    \/ \E cred \in creds, id \in PromotionIds :
           \/ Rejected(cred, "update_promotion_products")
           \/ \E u \in Admitted(cred) :
                  /\ update_promotion_products(u, id, <<1>>)
                  /\ PromotionFrame

MutatingRequest(creds) == CreatingRequest(creds) \/ ChangingRequest(creds)

\* the credentials the changing endpoints are called with: any while the
\* tables are empty, bad ones afterwards
ChangingCredentials ==
    IF categories = <<>> /\ promotions = <<>>
    THEN Credentials ELSE BadCredentials

\* every mutating endpoint is called with bad credentials; the creating
\* endpoints are also called with the valid token, so that the tables fill
NextAuth ==
    \/ CreatingRequest(Credentials)
    \/ ChangingRequest(ChangingCredentials)

SpecAuth == Init /\ [][NextAuth]_vars

\* the rows outside the authentication tables
Tables == <<categories, products, reviews, cart_items, cart_seq, promotions>>

\* C19: a request to a mutating endpoint (POST, PUT, DELETE on category,
\* product, cart, review, promotion) that carries no bearer credential, or
\* one matching no token record, is answered 401 or 403 and changes no table.
C19_BadCredentialsAreRejected ==
    [][MutatingRequest(BadCredentials) =>
          /\ resp'.status \in {HTTP_401_UNAUTHORIZED, HTTP_403_FORBIDDEN}
          /\ UNCHANGED Tables]_vars

\* a delete with an unknown token has been refused while the tables hold
\* live rows it could have removed
C19_Witness ==
    /\ resp.op = "delete_product"
    /\ resp.status = HTTP_401_UNAUTHORIZED
    /\ Live(products) # {}
    /\ DOMAIN cart_items # {}
    /\ Live(reviews) # {}

(***************************************************************************)
(* The token lookups on their own: each request draws the user_tokens      *)
(* table, the presented credential, and the clock reading.                 *)
(***************************************************************************)
TokenIds == 1..MaxTokens

\* token_id is the primary key: a table is a function from ids to rows
TokenTables ==
    UNION {[1..n -> [user_id : Users, expired_at : Times]] : n \in 0..MaxTokens}

\* the credentials HTTPBearer lets through: a token id, issued or not
PresentedCredentials == {{c} : c \in TokenIds \cup {UnknownId}}

TokenResponse(op, r, tokens, cred) ==
    /\ resp' = Response(op, r.status, UnknownId, 0,
                        [tokens |-> tokens, credentials |-> cred,
                         now |-> now, token |-> r.token],
                        NoItems, 0, 0)
    /\ UNCHANGED <<categories, products, reviews, cart_items, cart_seq,
                   promotions, now, inflight, elsewhere>>

GetToken ==
    \E tokens \in TokenTables, cred \in PresentedCredentials :
        TokenResponse("get_token", get_token(tokens, cred), tokens, cred)

GetTokenIfNotExpired ==
    \E tokens \in TokenTables, cred \in PresentedCredentials :
        TokenResponse("get_token_if_not_expired",
                      get_token_if_not_expired(tokens, cred, now),
                      tokens, cred)

NextToken ==
    \/ Tick
    \/ GetToken
    \/ GetTokenIfNotExpired

SpecToken == Init /\ [][NextToken]_vars

\* the record whose token_id equals the presented credential, if any
Matching == {k \in DOMAIN resp.arg.tokens : {k} = resp.arg.credentials}

\* C20: get_token_if_not_expired raises Unauthorized exactly when no token
\* record has token_id equal to the presented credential or the matching
\* record has expired_at < now; in every other case (expired_at = now
\* included) it returns that token record.
C20_UnauthorizedIffMissingOrExpired ==
    resp.op = "get_token_if_not_expired" =>
        /\ resp.status = HTTP_401_UNAUTHORIZED <=>
               \/ Matching = {}
               \/ \E k \in Matching :
                      resp.arg.tokens[k].expired_at < resp.arg.now
        /\ resp.status # HTTP_401_UNAUTHORIZED =>
               /\ resp.status = HTTP_200_OK
               /\ resp.arg.token = Matching

\* a token expiring at this very instant has been returned
C20_Witness ==
    /\ resp.op = "get_token_if_not_expired"
    /\ resp.status = HTTP_200_OK
    /\ resp.arg.now > 0
    /\ \E k \in resp.arg.token :
           resp.arg.tokens[k].expired_at = resp.arg.now

(***************************************************************************)
(* The token table over time: the gate's two lookups against the stored    *)
(* rows, with the clock advancing between requests.                        *)
(***************************************************************************)
\* fault variant: a lookup that slides the expiry of the token it found
token_rows_after_sliding(tokens, found, t) ==
    [k \in DOMAIN tokens |->
        IF k \in found THEN [tokens[k] EXCEPT !.expired_at = t] ELSE tokens[k]]

\* the rows after a lookup: neither function adds to the session, assigns an
\* attribute of the row or commits
token_rows_after(tokens, found, t) == tokens

\* the tables created at login, before the requests modelled here
InitTokenLifecycle ==
    /\ categories = <<>>
    /\ products = <<>>
    /\ reviews = <<>>
    /\ cart_items = <<>>
    /\ cart_seq = 0
    /\ promotions = <<>>
    /\ now = 0
    /\ inflight = <<>>
    /\ token_table \in TokenTables
    /\ resp = Response("none", 0, UnknownId, 0, 0, NoItems, 0, 0)
    /\ hashes = {}
    /\ ScriptNotRun

StoredTokenResponse(op, r, cred) ==
    /\ resp' = Response(op, r.status, UnknownId, 0,
                        [credentials |-> cred, now |-> now,
                         token |-> r.token],
                        NoItems, 0, 0)
    /\ token_table' = token_rows_after(token_table, r.token, now)
    /\ UNCHANGED <<categories, products, reviews, cart_items, cart_seq,
                   promotions, now, inflight, script>>

StoredGetToken ==
    \E cred \in PresentedCredentials :
        StoredTokenResponse("get_token", get_token(token_table, cred), cred)

StoredGetTokenIfNotExpired ==
    \E cred \in PresentedCredentials :
        StoredTokenResponse("get_token_if_not_expired",
                            get_token_if_not_expired(token_table, cred, now),
                            cred)

NextTokenLifecycle ==
    \/ Tick
    \/ StoredGetToken
    \/ StoredGetTokenIfNotExpired

SpecTokenLifecycle == InitTokenLifecycle /\ [][NextTokenLifecycle]_vars

\* get_token_if_not_expired rejects token k at the present time
RejectsAsExpired(k) ==
    /\ k \in DOMAIN token_table
    /\ token_table[k].expired_at < now

\* C21: get_token and get_token_if_not_expired never insert, modify or
\* delete a token record; so, the clock never going back, a token that
\* get_token_if_not_expired rejects as expired is rejected by every later
\* request that presents it.
C21_ExpiredStaysRejected ==
    [][/\ token_table' = token_table
       /\ now' >= now
       /\ \A k \in TokenIds :
              /\ RejectsAsExpired(k) => RejectsAsExpired(k)'
              /\ (/\ RejectsAsExpired(k)
                  /\ now' = now
                  /\ resp'.op = "get_token_if_not_expired"
                  /\ resp'.arg.credentials = {k})
                 => resp'.status = HTTP_401_UNAUTHORIZED]_vars

\* a stored token whose expiry has passed has been presented and rejected
C21_Witness ==
    /\ resp.op = "get_token_if_not_expired"
    /\ resp.status = HTTP_401_UNAUTHORIZED
    /\ \E k \in DOMAIN token_table :
           /\ resp.arg.credentials = {k}
           /\ token_table[k].expired_at < now

(***************************************************************************)
(* The paginated listings of category, product, cart and review, asked for *)
(* pages within and beyond the rows, and with page and page_size outside   *)
(* the documented range.                                                   *)
(***************************************************************************)
\* <<page, page_size>>
PageRequests ==
    ({1, 2, 3} \X {1, 2}) \cup {<<0, 1>>, <<1, 0>>, <<1, MaxPageSize + 1>>}

NoCartFilter ==
    [product_id |-> NULL, min_quantity |-> NULL, max_quantity |-> NULL]

PagedListing(requests) ==
    \/ \E pg \in requests : get_categories(pg[1], pg[2]) /\ CategoryFrame
    \/ \E pg \in requests :
           /\ list_products(ProductFilter(NULL, NULL), pg[1], pg[2])
           /\ ProductFrame
    \/ \E pg \in requests :
           /\ search_products(ProductFilter({"a"}, NULL), pg[1], pg[2])
           /\ ProductFrame
    \/ \E pg \in requests, c \in CategoryIds :
           /\ list_products_by_category(ProductFilter(NULL, {c}), pg[1],
                                        pg[2])
           /\ ProductFrame
    \/ \E pg \in requests :
           get_cart_items(1, NoCartFilter, pg[1], pg[2]) /\ CartFrame
    \/ \E pg \in requests :
           /\ list_reviews(1, ReviewFilter(NULL, NULL), pg[1], pg[2])
           /\ ReviewFrame
    \/ \E pg \in requests, pid \in ProductIds :
           /\ get_product_reviews(ReviewFilter({pid}, NULL), pg[1], pg[2])
           /\ ReviewFrame
    \/ \E pg \in requests : get_user_reviews(1, pg[1], pg[2]) /\ ReviewFrame

NextPagination ==
    \/ create_category(1, "a") /\ CategoryFrame
    \/ \E c \in CategoryIds : create_product(1, "a", 1, c) /\ ProductFrame
    \/ \E pid \in ProductIds : add_to_cart(1, pid, 1) /\ CartFrame
    \/ \E id \in CartItemIds :
           update_cart_item(1, id, [quantity |-> Sent(NULL)]) /\ CartFrame
    \/ \E pid \in ProductIds : create_review(1, pid, "t", 1) /\ ReviewFrame
    \/ PagedListing(PageRequests)

SpecPagination == Init /\ [][NextPagination]_vars

PagedOps ==
    {"get_categories", "list_products", "search_products",
     "list_products_by_category", "get_cart_items", "list_reviews",
     "get_product_reviews", "get_user_reviews"}

\* the rows the filters of the last listing request select
MatchingRows ==
    CASE resp.op = "get_categories" -> Live(categories)
      [] resp.op = "list_products" -> Live(products)
      [] resp.op = "search_products" ->
             {i \in Live(products) : products[i].name \in {{"a"}, {"ab"}}}
      [] resp.op = "list_products_by_category" ->
             {i \in Live(products) :
                 products[i].category_id = resp.arg.flt.category_id}
      [] resp.op = "get_cart_items" ->
             {i \in DOMAIN cart_items : cart_items[i].user_id = resp.user}
      [] resp.op = "list_reviews" -> Live(reviews)
      [] resp.op = "get_product_reviews" ->
             {i \in Live(reviews) :
                 {reviews[i].product_id} = resp.arg.flt.product_id}
      [] resp.op = "get_user_reviews" ->
             {i \in Live(reviews) :
                 {reviews[i].user_id} = resp.arg.flt.user_id}
      [] OTHER -> {}

\* ceil(total / page_size)
CeilDiv(total, page_size) ==
    IF total % page_size = 0 THEN total \div page_size
    ELSE total \div page_size + 1

\* C22: every paginated listing (category, product, review, cart), asked
\* with page >= 1 and page_size >= 1, answers with at most page_size items,
\* a total equal to the number of rows matching the filters whatever the
\* page, and pages = ceil(total / page_size); a page greater than pages
\* gives items = [] with that total and pages, and no error.
C22_PageWithinTotal ==
    (/\ resp.op \in PagedOps
     /\ resp.status # HTTP_404_NOT_FOUND
     /\ resp.arg.page >= 1
     /\ resp.arg.page_size \in 1..MaxPageSize)
        => /\ Len(resp.items) <= resp.arg.page_size
           /\ resp.total = Cardinality(MatchingRows)
           /\ resp.pages = CeilDiv(resp.total, resp.arg.page_size)
           /\ resp.arg.page > resp.pages =>
                  resp.status = HTTP_200_OK /\ resp.items = <<>>

\* C23: every paginated listing (category, product, cart, review) rejects
\* a request with page < 1 or page_size outside 1..100 with a validation
\* error, before any offset, limit or pages is computed.
C23_PageParametersValidated ==
    (/\ resp.op \in PagedOps
     /\ \/ resp.arg.page < 1
        \/ resp.arg.page_size \notin 1..MaxPageSize)
        => resp.status = HTTP_422_UNPROCESSABLE_ENTITY

\* the last two requests asked the same listing, with the same filters and
\* page_size, for two different pages, and both were answered
TwoPagesOfOneListing ==
    /\ resp.op \in PagedOps
    /\ resp'.op = resp.op
    /\ resp.status = HTTP_200_OK
    /\ resp'.status = HTTP_200_OK
    /\ resp'.user = resp.user
    /\ resp'.arg.flt = resp.arg.flt
    /\ resp'.arg.page_size = resp.arg.page_size
    /\ resp'.arg.page # resp.arg.page
    /\ UNCHANGED Tables

\* C24: with the same filters and page_size and no write in between, the
\* items of two different pages of a paginated listing are disjoint, and
\* pages 1..pages together hold each matching row exactly once.
C24_PagesPartitionTheRows ==
    [][TwoPagesOfOneListing =>
          /\ Range(resp.items) \cap Range(resp'.items) = {}
          /\ ({resp.arg.page, resp'.arg.page} = 1..resp.pages) =>
                 /\ Range(resp.items) \cup Range(resp'.items) = MatchingRows
                 /\ Len(resp.items) + Len(resp'.items) = resp.total]_vars

(***************************************************************************)
(* Timestamps: rows of category, product, review and promotion created,    *)
(* updated and soft-deleted while the clock advances.  One resource is     *)
(* taken through its life at a time: the rows it refers to are in place    *)
(* and the tables that refer to it are still empty.                        *)
(***************************************************************************)
NextTimestamps ==
    \/ Tick
    \/ create_category(1, "a") /\ CategoryFrame
    \/ /\ products = <<>>
       /\ \E id \in CategoryIds :
              \/ update_category(1, id, [name |-> Sent({"ab"})])
              \/ delete_category(1, id)
       /\ CategoryFrame
    \/ \E c \in CategoryIds : create_product(1, "a", 1, c) /\ ProductFrame
    \/ /\ reviews = <<>> /\ promotions = <<>>
       /\ \E id \in ProductIds :
              \/ update_product(1, id, [name |-> Unset, price |-> Sent({2}),
                                        category_id |-> Unset])
              \/ delete_product(1, id)
       /\ ProductFrame
    \/ /\ promotions = <<>>
       /\ \E pid \in ProductIds : create_review(1, pid, "t", 1)
       /\ ReviewFrame
    \/ /\ promotions = <<>>
       /\ \E id \in ReviewIds :
              \/ update_review(1, id, [text |-> Unset, rating |-> Sent({5})])
              \/ delete_review(1, id)
       /\ ReviewFrame
    \/ /\ reviews = <<>>
       /\ create_promotion(1, [name |-> "a", start_date |-> 0,
                               end_date |-> MaxTime, product_ids |-> NULL])
       /\ PromotionFrame
    \/ /\ reviews = <<>>
       /\ \E id \in PromotionIds :
              \/ update_promotion(1, id, [name |-> {"ab"}, start_date |-> NULL,
                                          end_date |-> NULL,
                                          product_ids |-> NULL])
              \/ update_promotion_products(1, id, <<1>>)
              \/ delete_promotion(1, id)
       /\ PromotionFrame

SpecTimestamps == Init /\ [][NextTimestamps]_vars

\* what a step may do to the timestamps of the rows of one table
Stamped(old, new) ==
    /\ \A i \in DOMAIN new \ DOMAIN old :
           /\ new[i].created_at = now
           /\ new[i].updated_at = now
           /\ new[i].deleted_at = NULL
    /\ \A i \in DOMAIN old :
           /\ i \in DOMAIN new
           /\ new[i].created_at = old[i].created_at
           /\ new[i] # old[i] => new[i].updated_at = now

\* the request just answered is an update or a soft delete, of table `ops`
\* names, that succeeded on row resp'.id
Mutated(ops, new) ==
    (/\ resp'.op \in ops
     /\ resp'.status \in {HTTP_200_OK, HTTP_204_NO_CONTENT})
        => new[resp'.id].updated_at = now

\* C26: for category, product, review and promotion, a created row has
\* created_at = updated_at = the time of creation and deleted_at null; every
\* later successful update or soft delete sets updated_at to the time of
\* that request; created_at never changes.
C26_TimestampsFollowMutations ==
    [][Request =>
          /\ Stamped(categories, categories')
          /\ Stamped(products, products')
          /\ Stamped(reviews, reviews')
          /\ Stamped(promotions, promotions')
          /\ Mutated({"update_category", "delete_category"}, categories')
          /\ Mutated({"update_product", "delete_product"}, products')
          /\ Mutated({"update_review", "delete_review"}, reviews')
          /\ Mutated({"update_promotion", "update_promotion_products",
                      "delete_promotion"}, promotions')]_vars

\* a product has been updated later than it was created, and its row shows
\* both times
C26_Witness ==
    /\ resp.op = "update_product"
    /\ resp.status = HTTP_200_OK
    /\ products[resp.id].created_at < now
    /\ products[resp.id].updated_at = now

(***************************************************************************)
(* Category names under concurrent requests.  create_category reaches the  *)
(* database once, at its commit; update_category reads the row, and writes *)
(* it at its commit, and other requests may run in between.  The unique    *)
(* index is checked by the database when the statement is executed.        *)
(***************************************************************************)
\* two rows, so that one name can meet another
ConcurrentCategoryIds == 1..(MaxCategories + 1)

\* lines 98-110: the query for the live row
update_category_begin(slot, u, id, body) ==
    /\ slot \notin DOMAIN inflight
    /\ IF select_live_category(categories, id) = {}
       THEN /\ resp' = Response("update_category", HTTP_404_NOT_FOUND, id,
                                u, body, NoItems, 0, 0)
            /\ UNCHANGED inflight
       ELSE IF ~body.name.sent
       THEN /\ resp' = Response("update_category", HTTP_200_OK, id, u, body,
                                NoItems, 0, 0)
            /\ UNCHANGED inflight
       ELSE /\ inflight' = Begin(slot, [op |-> "update_category",
                                        pc |-> "category_read", user |-> u,
                                        id |-> id, body |-> body])
            /\ UNCHANGED resp
    /\ UNCHANGED categories

\* lines 116-130: setattr, updated_at and the commit; the UPDATE addresses
\* the row by its primary key
update_category_commit(slot) ==
    /\ At(slot, "update_category", "category_read")
    /\ LET c == inflight[slot] IN
       IF name_unique_violation(categories, c.id, c.body.name.val)
       THEN /\ resp' = Response("update_category", HTTP_400_BAD_REQUEST,
                                c.id, c.user, c.body, NoItems, 0, 0)
            /\ UNCHANGED categories
       ELSE /\ categories' = [categories EXCEPT
                                 ![c.id].name = c.body.name.val,
                                 ![c.id].updated_at = now]
            /\ resp' = Response("update_category",
                                IF IsNull(c.body.name.val)
                                THEN HTTP_500_INTERNAL_SERVER_ERROR
                                ELSE HTTP_200_OK,
                                c.id, c.user, c.body, NoItems, 0, 0)
    /\ inflight' = Finish(slot)

NextCategoryConcurrent ==
    \/ \E name \in Names :
           /\ create_category_within(1, name, MaxCategories + 1)
           /\ CategoryFrame
    \/ \E slot \in Slots, id \in ConcurrentCategoryIds,
          name \in Field(Names) :
           /\ \A other \in Slots : other < slot => other \in DOMAIN inflight
           /\ update_category_begin(slot, 1, id, [name |-> name])
           /\ UNCHANGED <<products, reviews, cart_items, cart_seq,
                          promotions, now, elsewhere>>
    \/ \E slot \in Slots :
           /\ update_category_commit(slot)
           /\ UNCHANGED <<products, reviews, cart_items, cart_seq,
                          promotions, now, elsewhere>>
    \/ \E id \in ConcurrentCategoryIds :
           delete_category(1, id) /\ CategoryFrame

SpecCategoryConcurrent == Init /\ [][NextCategoryConcurrent]_vars

\* no two rows hold the same name
NamesAreDistinct(cats) ==
    \A i, j \in DOMAIN cats :
        (i # j /\ ~IsNull(cats[i].name)) => cats[i].name # cats[j].name

\* the step answers a request: a new response, or an in-flight request ends
Answers ==
    \/ resp' # resp
    \/ \E slot \in DOMAIN inflight : slot \notin DOMAIN inflight'

\* the request answered asked for a name that another row holds
NameIsTaken ==
    \/ /\ resp'.op = "create_category"
       /\ \E j \in DOMAIN categories : categories[j].name = {resp'.arg}
    \/ /\ resp'.op = "update_category"
       /\ resp'.status # HTTP_404_NOT_FOUND
       /\ resp'.arg.name.sent
       /\ ~IsNull(resp'.arg.name.val)
       /\ \E j \in DOMAIN categories :
              j # resp'.id /\ categories[j].name = resp'.arg.name.val

\* C25: no two category rows, soft-deleted rows included, share a name in
\* any reachable state, however create_category and update_category
\* interleave; a create or update asking for a name another row holds is
\* answered 400 and leaves every category row unchanged.
C25_CategoryNamesAreUnique ==
    [][/\ NamesAreDistinct(categories')
       /\ (Answers /\ NameIsTaken) =>
              /\ resp'.status = HTTP_400_BAD_REQUEST
              /\ categories' = categories]_vars

\* an update has been refused because of a name held by a soft-deleted row
C25_Witness ==
    /\ resp.op = "update_category"
    /\ resp.status = HTTP_400_BAD_REQUEST
    /\ \E j \in DOMAIN categories :
           /\ j # resp.id
           /\ categories[j].name = resp.arg.name.val
           /\ ~IsNull(categories[j].deleted_at)

(***************************************************************************)
(* Increments of the cart under concurrent requests.                       *)
(***************************************************************************)
\* the sum of quantity over the rows of user u for product pid
QuantityOf(cart, u, pid) == SumQuantity(cart, RowsOf(cart, u, pid))

\* C27: when concurrent add_to_cart requests of one user for one live
\* product complete, in whatever order their read and write steps ran,
\* each request answered 201 has added its quantity to the sum of quantity
\* over that user's rows for the product: no increment is lost.
C27_NoIncrementIsLost ==
    [][(/\ \E slot \in DOMAIN inflight : slot \notin DOMAIN inflight'
        /\ resp'.op = "add_to_cart"
        /\ resp'.status = HTTP_201_CREATED)
          => QuantityOf(cart_items', resp'.user, resp'.arg.product_id)
               = QuantityOf(cart_items, resp'.user, resp'.arg.product_id)
                 + resp'.arg.quantity]_vars

(***************************************************************************)
(* The carts of two users, one request at a time, listings included.       *)
(***************************************************************************)
NextCartIsolation ==
    \/ CreateCategory({"a"})
    \/ CreateProduct({"a"}, {1})
    \/ \E u \in Users, pid \in ProductIds : add_to_cart(u, pid, 1) /\ CartFrame
    \/ GetCartItem
    \/ UpdateCartItem
    \/ RemoveFromCart
    \/ ClearCart
    \/ GetCartItemCount
    \/ \E u \in Users, page \in {1, 2} :
           get_cart_items(u, NoCartFilter, page, 1) /\ CartFrame

SpecCartIsolation == Init /\ [][NextCartIsolation]_vars

\* the six cart operations that read or change rows already stored
CartOps == {"get_cart_items", "get_cart_item", "update_cart_item",
            "remove_from_cart", "clear_cart", "get_cart_item_count"}

\* the rows of the other users
ForeignRows(cart, u) == {i \in DOMAIN cart : cart[i].user_id # u}

\* C28: a cart operation issued by user A (get_cart_items, get_cart_item,
\* update_cart_item, remove_from_cart, clear_cart, get_cart_item_count)
\* leaves every row of another user stored and unchanged, answers 404 for
\* a cart_item_id owned by another user, lists only rows of A and counts
\* only rows of A.
C28_CartsAreIsolated ==
    [][resp'.op \in CartOps =>
          LET A == resp'.user IN
          /\ \A i \in ForeignRows(cart_items, A) :
                 /\ i \in DOMAIN cart_items'
                 /\ cart_items'[i] = cart_items[i]
          /\ (/\ resp'.op \in {"get_cart_item", "update_cart_item",
                               "remove_from_cart"}
              /\ resp'.id \in ForeignRows(cart_items, A))
                => resp'.status = HTTP_404_NOT_FOUND
          /\ resp'.op = "get_cart_items" =>
                 \A k \in DOMAIN resp'.items :
                     cart_items[resp'.items[k]].user_id = A
          /\ resp'.op = "get_cart_item_count" =>
                 resp'.total =
                     SumQuantity(cart_items, user_cart(cart_items, A))]_vars

\* a user who holds rows of their own has asked to update a row of another
\* user's cart, and the answer was 404
C28_Witness ==
    /\ resp.op = "update_cart_item"
    /\ resp.status = HTTP_404_NOT_FOUND
    /\ resp.id \in ForeignRows(cart_items, resp.user)
    /\ user_cart(cart_items, resp.user) # {}

(***************************************************************************)
(* Reviewing again after a soft delete.                                    *)
(***************************************************************************)
\* the soft-deleted reviews of user u for product pid
DeletedReviewsOf(rs, u, pid) ==
    {i \in DOMAIN rs : /\ rs[i].user_id = u
                       /\ rs[i].product_id = pid
                       /\ ~IsNull(rs[i].deleted_at)}

\* a create_review request with a body the schema accepts, for a live
\* product, by a user whose reviews of that product are all soft-deleted
C29_CreateAfterDelete ==
    /\ resp'.op = "create_review"
    /\ resp'.status # HTTP_422_UNPROCESSABLE_ENTITY
    /\ select_live_product(products, resp'.arg.product_id) # {}
    /\ DeletedReviewsOf(reviews, resp'.user, resp'.arg.product_id) # {}
    /\ LiveReviewsOf(reviews, resp'.user, resp'.arg.product_id) = {}

\* C29: after a user has soft-deleted their review of a product, a later
\* create_review by that user for the same live product succeeds and
\* inserts a new row under a new id; the soft-deleted row stays stored and
\* unchanged.
C29_ReviewAgainAfterDelete ==
    [][C29_CreateAfterDelete =>
          /\ resp'.status = HTTP_200_OK
          /\ resp'.id \notin DOMAIN reviews
          /\ DOMAIN reviews' = DOMAIN reviews \cup {resp'.id}
          /\ reviews'[resp'.id].user_id = resp'.user
          /\ reviews'[resp'.id].product_id = resp'.arg.product_id
          /\ IsNull(reviews'[resp'.id].deleted_at)
          /\ \A i \in DOMAIN reviews : reviews'[i] = reviews[i]]_vars

\* the user has reviewed the product again: the new row is live and the
\* soft-deleted row of the same user and product is still stored
C29_Witness ==
    /\ resp.op = "create_review"
    /\ resp.status = HTTP_200_OK
    /\ resp.id \in LiveReviewsOf(reviews, resp.user, resp.arg.product_id)
    /\ DeletedReviewsOf(reviews, resp.user, resp.arg.product_id) # {}

(***************************************************************************)
(* backend_dop_task.py: brute_force and its worker processes.  Each        *)
(* process takes one step at a time: a statement that reads or writes a    *)
(* queue, the event or a process handle.                                   *)
(***************************************************************************)
\* line 9: the digest of a candidate; the model's candidates are numbers
\* and its digests are numbers outside the candidates
get_hash(data) == NumCandidates + 1 + ((data * 3) % (2 * NumCandidates + 1))

\* the hashes a call may be given: any set of digests of candidates
HashInputs == SUBSET {get_hash(c) : c \in Candidates}

\* lines 13-26: one step of worker process w
worker(w) ==
    LET me == workers[w] IN
    /\ me.pc \in {"loop", "get", "hash"}
    /\ IF me.pc = "loop"
       THEN \* line 14: while not stop_event.is_set()
            /\ workers' = [workers EXCEPT ![w].pc =
                              IF stop_event THEN "exited" ELSE "get"]
            /\ UNCHANGED <<input_queue, output_queue>>
       ELSE IF me.pc = "get"
       THEN \* lines 16-19 and 25-26: get(timeout=1) returns the oldest
            \* item, or raises queue.Empty, which the except clause prints
            IF input_queue = <<>>
            THEN /\ workers' = [workers EXCEPT ![w].pc = "loop"]
                 /\ UNCHANGED <<input_queue, output_queue>>
            ELSE /\ input_queue' = Tail(input_queue)
                 /\ workers' = [workers EXCEPT
                        ![w].data = Head(input_queue),
                        ![w].pc = IF Head(input_queue) = None
                                  THEN "exited" ELSE "hash"]
                 /\ UNCHANGED output_queue
       ELSE \* lines 20-24: the digest, compared with each hash given
            /\ output_queue' =
                  IF get_hash(me.data) \in hashes
                  THEN Append(output_queue, <<me.data, get_hash(me.data)>>)
                  ELSE output_queue
            /\ workers' = [workers EXCEPT ![w].pc = "loop"]
            /\ UNCHANGED input_queue
    /\ UNCHANGED <<hashes, stop_event, host>>

\* lines 35-66: one step of the host process
brute_force ==
    /\ host.pc # "done"
    /\ IF host.pc = "start"
       THEN \* lines 41-45: the workers are started
            /\ workers' = [w \in WorkerIds |-> [workers[w] EXCEPT !.pc = "loop"]]
            /\ host' = [host EXCEPT !.pc = "produce"]
            /\ UNCHANGED <<input_queue, output_queue>>
       ELSE IF host.pc = "produce"
       THEN \* lines 49-50: the next candidate, or the end of the sequence
            /\ IF host.i \in Candidates
               THEN /\ input_queue' = Append(input_queue, host.i)
                    /\ host' = [host EXCEPT !.i = @ + 1, !.pc = "check_full"]
               ELSE /\ host' = [host EXCEPT !.pc = "join"]
                    /\ UNCHANGED input_queue
            /\ UNCHANGED <<output_queue, workers>>
       ELSE IF host.pc = "check_full"
       THEN \* line 51
            /\ host' = [host EXCEPT !.pc = IF Len(input_queue) > max_q
                                           THEN "drain" ELSE "check_output"]
            /\ UNCHANGED <<input_queue, output_queue, workers>>
       ELSE IF host.pc = "drain"
       THEN \* lines 53-56: sleeps until the queue is short again
            /\ Len(input_queue) < min_q
            /\ host' = [host EXCEPT !.pc = "check_output"]
            /\ UNCHANGED <<input_queue, output_queue, workers>>
       ELSE IF host.pc = "check_output"
       THEN \* lines 57-60: a match ends the producing loop
            /\ IF Len(output_queue) > 0
               THEN /\ output_queue' = Tail(output_queue)
                    /\ host' = [host EXCEPT !.data = Head(output_queue)[1],
                                            !.pc = "join"]
               ELSE /\ host' = [host EXCEPT !.pc = "produce"]
                    /\ UNCHANGED output_queue
            /\ UNCHANGED <<input_queue, workers>>
       ELSE IF host.pc = "join"
       THEN \* lines 62-63: p.join() returns when process p has exited
            /\ IF host.joined < NumWorkers
               THEN /\ workers[host.joined + 1].pc = "exited"
                    /\ host' = [host EXCEPT !.joined = @ + 1]
               ELSE host' = [host EXCEPT !.pc = "sentinels"]
            /\ UNCHANGED <<input_queue, output_queue, workers>>
       ELSE \* lines 64-66: one None per worker, then the last print
            /\ IF host.sent < NumWorkers
               THEN /\ input_queue' = Append(input_queue, None)
                    /\ host' = [host EXCEPT !.sent = @ + 1]
               ELSE /\ host' = [host EXCEPT !.pc = "done"]
                    /\ UNCHANGED input_queue
            /\ UNCHANGED <<output_queue, workers>>
    /\ UNCHANGED <<hashes, stop_event>>

\* the tables, the clock and the responses of the web application
web == <<categories, products, reviews, cart_items, cart_seq, promotions,
         now, inflight, token_table, resp>>

InitBruteForce ==
    /\ categories = <<>>
    /\ products = <<>>
    /\ reviews = <<>>
    /\ cart_items = <<>>
    /\ cart_seq = 0
    /\ promotions = <<>>
    /\ now = 0
    /\ inflight = <<>>
    /\ token_table = user_tokens
    /\ resp = Response("none", 0, UnknownId, 0, 0, NoItems, 0, 0)
    /\ hashes \in HashInputs
    /\ ScriptNotRun

NextBruteForce ==
    \/ brute_force /\ UNCHANGED web
    \/ \E w \in WorkerIds : worker(w) /\ UNCHANGED web

\* every process that can take a step is scheduled again and again
SpecBruteForce ==
    /\ InitBruteForce
    /\ [][NextBruteForce]_vars
    /\ WF_vars(brute_force /\ UNCHANGED web)
    /\ \A w \in WorkerIds : WF_vars(worker(w) /\ UNCHANGED web)

\* the host has left its producing loop
LeftProducingLoop == host.pc \in {"join", "sentinels", "done"}

\* every worker has exited and the host is at its final statement
Terminated ==
    /\ \A w \in WorkerIds : workers[w].pc = "exited"
    /\ host.joined = NumWorkers
    /\ host.pc = "done"

\* C30: brute_force terminates: once the host has read a match and left
\* its producing loop, or the candidate sequence is exhausted, every worker
\* process eventually exits, every join returns and the host reaches its
\* final statement.
C30_BruteForceTerminates == LeftProducingLoop ~> Terminated

=============================================================================
